---- MODULE Spec2Model ----
(***************************************************************************)
(* Lunu-Rise front end: the payment modal, the Wallet page, the two        *)
(* registration pages and the login page, together with the hosted         *)
(* document store and authentication service they talk to.                 *)
(*                                                                         *)
(* Strings whose characters matter (card numbers, expiry dates, phone      *)
(* numbers, passwords, referral codes) are sequences of one-character      *)
(* strings, so that the regular expressions and the slicing of the code    *)
(* are computed and not assumed.                                           *)
(*                                                                         *)
(* Every `await` of a handler is a point where other events interleave:    *)
(* a handler is modelled by one action per stretch of code between two     *)
(* awaits.  A remote call settles either way (resolve / reject).           *)
(***************************************************************************)
EXTENDS Integers, Sequences, FiniteSets, TLC

VARIABLES
    \* ---- signed-in user (AuthContext) ----
    user,
    \* ---- document store ----
    transactions,     \* collection 'transactions', in creation order
    investments,      \* collection 'investments', in creation order
    \* ---- PaymentModalFake component state ----
    isOpen,           \* prop isOpen, driven by the parent through onClose
    cardForm,         \* useState cardForm
    payLoading,       \* useState loading
    payPc,            \* where the running handleFakeStripePayment is
    payToasts,        \* toast notifications of the modal, oldest first
    payLocation,      \* last navigate() target of the modal
    cardRuns,         \* history: outcome of each click on Pay, oldest first
    \* ---- document store, collection 'users': document id -> profile ----
    users,
    \* ---- Wallet page, one copy per open session of the signed-in user ----
    wBalance,         \* useState balance
    wLoading,         \* useState loading
    wModal,           \* showDeposit / showWithdraw: which dialog is open
    wDeposit,         \* depositAmount, cardNumber, expiry, cvc
    wWithdraw,        \* withdrawAmount, bankName, accountNumber, accountName
    wPc,              \* where the running handleDeposit / handleWithdraw is
    wToast,           \* the last toast notification of the page
    wClicks,          \* history: clicks on Deposit and Withdraw so far
    wLast,            \* history: the last click, its session and its kind
    \* ---- authentication service ----
    identities,       \* the accounts it holds, in creation order
    \* ---- document store: referral credit writes issued by forEach ----
    credits,          \* the writes in flight, each with its run and its target
    creditLog,        \* history: per profile, the writes applied and rejected
    \* ---- registration pages, one per variant of the Register component ----
    regPc,            \* where the running handleSubmit / handleEmailSignUp is
    regToast,         \* the last toast notification of the page
    regLocation,      \* the route the browser of the page shows
    regRuns,          \* history: the submissions that passed validation
    \* ---- Login page ----
    session,          \* auth.currentUser of the authentication service
    loginPc,          \* where the running handleEmailLogin is
    loginToasts,      \* toast notifications of the page, oldest first
    loginLocation,    \* the route the browser shows
    loginRuns,        \* history: number of clicks on Login so far
    \* ---- Transactions page (one of the two variants of the component) ----
    txPage,           \* its variant and its useState values
    txSub,            \* the onSnapshot subscription of its effect
    txFiles,          \* history: the files exportToCSV has produced
    \* ---- Dashboard page (one of the three variants of the component) ----
    dashPage,         \* its variant and its useState values
    dashPc,           \* where the running loader of its effect is
    \* ---- PaymentModalFake component state, crypto tab ----
    cryptoForm,       \* useState cryptoForm
    cryptoPc,         \* the clicks on Submit so far, each with where it is
    \* ---- registration and login pages: the form ----
    formData,         \* useState formData of each page
    \* ---- live feeds of a screen (onSnapshot inside useEffect) ----
    effect,           \* the screen, its dependencies and the cleanup in force
    listeners         \* the listeners registered at the store and not removed

payVars == <<isOpen, cardForm, payLoading, payPc, payToasts, payLocation, cardRuns>>
storeVars == <<transactions, investments>>
walletVars ==
    <<wBalance, wLoading, wModal, wDeposit, wWithdraw, wPc, wToast, wClicks, wLast>>
regVars == <<identities, credits, creditLog, regPc, regToast, regLocation, regRuns>>
loginVars == <<session, loginPc, loginToasts, loginLocation, loginRuns>>
txVars == <<txPage, txSub, txFiles>>
dashVars == <<dashPage, dashPc>>
cryptoVars == <<cryptoForm, cryptoPc>>
\* the state of the pages and the tab modelled after the others
subVars == <<effect, listeners>>
viewVars == <<txVars, dashVars, cryptoVars, formData, subVars>>
vars == <<user, storeVars, payVars, users, walletVars, regVars, loginVars, viewVars>>

\* what the payment modal never touches
outsidePay == <<user, users, walletVars, regVars, loginVars, viewVars>>

\* what the Wallet page never touches
outsideWallet == <<user, investments, payVars, regVars, loginVars, viewVars>>

\* what the registration pages never touch
outsideRegister == <<user, storeVars, payVars, walletVars, loginVars, viewVars>>

\* what the Login page never touches
outsideLogin ==
    <<storeVars, payVars, users, walletVars,
      credits, creditLog, regPc, regToast, regLocation, regRuns, viewVars>>

\* what the Transactions page never touches
outsideTransactions ==
    <<user, investments, payVars, users, walletVars, regVars, loginVars, dashVars,
      cryptoVars, formData, subVars>>

\* what the Dashboard page never touches
outsideDashboard ==
    <<user, transactions, payVars, walletVars, regVars, loginVars, txVars, cryptoVars,
      formData, subVars>>

NULL == "null"

----------------------------------------------------------------------------
(* Characters and strings *)

DigitChars == <<"0", "1", "2", "3", "4", "5", "6", "7", "8", "9">>

IsDigit(c) == c \in {DigitChars[i] : i \in 1..10}

\* \s of the regular expressions; the only whitespace of the model is " "
IsSpace(c) == c = " "

NotSpace(c) == ~IsSpace(c)

Min(a, b) == IF a < b THEN a ELSE b

\* String.prototype.slice(0, n)
Take(s, n) == SubSeq(s, 1, Min(n, Len(s)))

\* String.prototype.slice(-n)
LastN(s, n) == SubSeq(s, Len(s) - Min(n, Len(s)) + 1, Len(s))

\* value.replace(/\D/g, '')
StripNonDigits(s) == SelectSeq(s, IsDigit)

\* value.replace(/\s/g, '')
StripSpaces(s) == SelectSeq(s, NotSpace)

RECURSIVE TrimLeft(_)
TrimLeft(s) == IF s # <<>> /\ IsSpace(Head(s)) THEN TrimLeft(Tail(s)) ELSE s

RECURSIVE TrimRight(_)
TrimRight(s) ==
    IF s # <<>> /\ IsSpace(s[Len(s)]) THEN TrimRight(SubSeq(s, 1, Len(s) - 1)) ELSE s

\* String.prototype.trim()
Trim(s) == TrimRight(TrimLeft(s))

\* value.replace(/(.{4})/g, '$1 '): a space after every complete group of four
RECURSIVE Group4(_)
Group4(s) ==
    IF Len(s) < 4 THEN s
    ELSE SubSeq(s, 1, 4) \o <<" ">> \o Group4(SubSeq(s, 5, Len(s)))

AllDigits(s) == \A i \in 1..Len(s) : IsDigit(s[i])

\* the string "1234567890123..." of n digits
Digits(n) == [i \in 1..n |-> DigitChars[(i % 10) + 1]]

\* n times the character c
Rep(c, n) == [i \in 1..n |-> c]

----------------------------------------------------------------------------
(* PaymentModalFake: helpers *)

\* a formatter that forgets to drop what is not a digit
formatCardNumber_keepsNonDigits(value) == Trim(Group4(Take(value, 16)))

formatCardNumber(value) == Trim(Group4(Take(StripNonDigits(value), 16)))

formatExpiry(value) ==
    LET digits == Take(StripNonDigits(value), 4)
    IN  IF Len(digits) <= 2 THEN digits
        ELSE SubSeq(digits, 1, 2) \o <<"/">> \o SubSeq(digits, 3, Len(digits))

\* onChange of the CVC input: e.target.value.slice(0, 3)
sliceCvc(value) == Take(value, 3)

\* cardForm.cardNumber.replace(/\s/g, '')
cardNumberDigits(form) == StripSpaces(form.cardNumber)

\* /^\d{2}\/\d{2}$/.test(cardForm.expiry)
expiryValid(expiry) ==
    /\ Len(expiry) = 5
    /\ IsDigit(expiry[1]) /\ IsDigit(expiry[2])
    /\ expiry[3] = "/"
    /\ IsDigit(expiry[4]) /\ IsDigit(expiry[5])

\* /^\d{3}$/.test(cardForm.cvc)
cvcValid(cvc) == Len(cvc) = 3 /\ AllDigits(cvc)

\* the condition of the `if` that guards the payment (part_000:80-86)
cardFormRejected(form) ==
    \/ Len(cardNumberDigits(form)) # 16
    \/ ~expiryValid(form.expiry)
    \/ ~cvcValid(form.cvc)
    \/ form.cardholder = ""
    \/ ~form.confirmTerms

EmptyCardForm ==
    [cardNumber |-> <<>>, expiry |-> <<>>, cvc |-> <<>>, cardholder |-> "",
     confirmTerms |-> FALSE]

\* the plan the modal was opened for (prop plan)
plan ==
    [id |-> "starter", deposit_usd |-> 50, payout_per_drop_usd |-> 10,
     drops_count |-> 6, total_return_usd |-> 60]

Alice == [uid |-> "uid-alice", email |-> "alice@example.com"]

\* useAuth() before anybody has signed in
NoUser == [uid |-> NULL, email |-> NULL]

\* addDoc gives every document a fresh identifier
NewId(name, coll) == <<name, Len(coll) + 1>>

\* a transaction document that keeps the whole card number
CardTxDoc_wholeNumber(id, email, digits, expiry, run) ==
    [id |-> id, userEmail |-> email, userId |-> NULL, planId |-> plan.id,
     amount |-> plan.deposit_usd, type |-> "deposit", method |-> "Stripe",
     status |-> "success", card |-> [last4 |-> digits, expiry |-> expiry],
     note |-> NULL, by |-> <<"card", run>>]

\* the transaction document of the card path (part_000:95-107)
CardTxDoc(id, email, digits, expiry, run) ==
    [id |-> id, userEmail |-> email, userId |-> NULL, planId |-> plan.id,
     amount |-> plan.deposit_usd, type |-> "deposit", method |-> "Stripe",
     status |-> "success", card |-> [last4 |-> LastN(digits, 4), expiry |-> expiry],
     note |-> NULL, by |-> <<"card", run>>]

\* an investment that carries its own identifier where the transaction's should be
CardInvestmentDoc_refersToItself(id, email, txId, run) ==
    [id |-> id, userEmail |-> email, planId |-> plan.id, transactionId |-> id,
     deposit_usd |-> plan.deposit_usd,
     payout_per_drop_usd |-> plan.payout_per_drop_usd,
     drops_count |-> plan.drops_count,
     total_return_usd |-> plan.total_return_usd,
     status |-> "active", by |-> <<"card", run>>]

\* the investment document of the card path (part_000:110-120)
CardInvestmentDoc(id, email, txId, run) ==
    [id |-> id, userEmail |-> email, planId |-> plan.id, transactionId |-> txId,
     deposit_usd |-> plan.deposit_usd,
     payout_per_drop_usd |-> plan.payout_per_drop_usd,
     drops_count |-> plan.drops_count,
     total_return_usd |-> plan.total_return_usd,
     status |-> "active", by |-> <<"card", run>>]

----------------------------------------------------------------------------
(* PaymentModalFake: what the user can type, and the bounds *)

\* clicks on Pay followed in one behaviour
MaxCardRuns == 2

\* pasted or typed card numbers: 15, 16 and 17 digits, and 16 letters
RawCardNumbers == {Digits(15), Digits(16), Digits(17), Rep("x", 16)}

RawExpiries == {<<"1", "2", "3", "4">>, <<"1", "2", "3">>, <<"a", "b">>}

\* values of an <input type="number">
RawCvcs == {<<"1", "2", "3">>, <<"1", "2">>, <<"1", "2", "3", "4">>, <<"-", "1", "2">>}

Cardholders == {"", "A. Holder"}

PayIdle == [at |-> "idle"]

\* the Wallet page is not open
WalletUnused ==
    /\ wBalance = <<>> /\ wLoading = <<>> /\ wModal = <<>>
    /\ wDeposit = <<>> /\ wWithdraw = <<>> /\ wPc = <<>> /\ wToast = <<>>
    /\ wClicks = 0 /\ wLast = <<>>

\* no registration page is open
RegisterUnused ==
    /\ identities = <<>> /\ credits = {} /\ creditLog = <<>>
    /\ regPc = <<>> /\ regToast = <<>>
    /\ regLocation = <<>> /\ regRuns = <<>>

\* the Transactions page is not open
TransactionsUnused == txPage = <<>> /\ txSub = <<>> /\ txFiles = <<>>

\* the Dashboard page is not open
DashboardUnused == dashPage = <<>> /\ dashPc = <<>>

\* the crypto tab of the payment modal is not used
CryptoUnused == cryptoForm = <<>> /\ cryptoPc = <<>>

\* the subscriptions of the screens are not followed
SubscriptionsUnused == effect = <<>> /\ listeners = {}

\* the forms of the registration and login pages are not followed
FormsUnused == formData = <<>>

\* the pages that only show the stored records are not open, the crypto tab
\* is not used and the forms are not followed
ViewsUnused ==
    /\ TransactionsUnused /\ DashboardUnused /\ CryptoUnused /\ FormsUnused
    /\ SubscriptionsUnused

\* the Login page is not open
LoginUnused ==
    /\ session = NoUser /\ loginPc = [at |-> "idle"] /\ loginToasts = <<>>
    /\ loginLocation = "" /\ loginRuns = 0

----------------------------------------------------------------------------
(* PaymentModalFake: the form *)

SetCardNumber(raw) ==
    /\ isOpen
    /\ cardForm' = [cardForm EXCEPT !.cardNumber = formatCardNumber(raw)]
    /\ UNCHANGED <<outsidePay, storeVars, isOpen, payLoading, payPc, payToasts, payLocation, cardRuns>>

SetExpiry(raw) ==
    /\ isOpen
    /\ cardForm' = [cardForm EXCEPT !.expiry = formatExpiry(raw)]
    /\ UNCHANGED <<outsidePay, storeVars, isOpen, payLoading, payPc, payToasts, payLocation, cardRuns>>

SetCvc(raw) ==
    /\ isOpen
    /\ cardForm' = [cardForm EXCEPT !.cvc = sliceCvc(raw)]
    /\ UNCHANGED <<outsidePay, storeVars, isOpen, payLoading, payPc, payToasts, payLocation, cardRuns>>

SetCardholder(name) ==
    /\ isOpen
    /\ cardForm' = [cardForm EXCEPT !.cardholder = name]
    /\ UNCHANGED <<outsidePay, storeVars, isOpen, payLoading, payPc, payToasts, payLocation, cardRuns>>

SetConfirmTerms(c) ==
    /\ isOpen
    /\ cardForm' = [cardForm EXCEPT !.confirmTerms = c]
    /\ UNCHANGED <<outsidePay, storeVars, isOpen, payLoading, payPc, payToasts, payLocation, cardRuns>>

\* the parent shows the modal again
OpenModal ==
    /\ ~isOpen
    /\ isOpen' = TRUE
    /\ UNCHANGED <<outsidePay, storeVars, cardForm, payLoading, payPc, payToasts, payLocation, cardRuns>>

----------------------------------------------------------------------------
(* PaymentModalFake: handleFakeStripePayment, one action per stretch between awaits *)

\* click on Pay (the button is disabled while loading): lines 74-92
CardSubmit ==
    /\ isOpen /\ ~payLoading
    /\ Len(cardRuns) < MaxCardRuns
    /\ IF user.email = NULL
       THEN /\ cardRuns' = Append(cardRuns, "nouser")
            /\ UNCHANGED <<payLoading, payPc, payToasts>>
       ELSE IF cardFormRejected(cardForm)
       THEN /\ payToasts' = Append(payToasts, "Invalid card details or terms not confirmed")
            /\ cardRuns' = Append(cardRuns, "rejected")
            /\ UNCHANGED <<payLoading, payPc>>
       ELSE /\ payLoading' = TRUE
            /\ payPc' = [at |-> "delay", run |-> Len(cardRuns) + 1,
                         email |-> user.email,
                         digits |-> cardNumberDigits(cardForm),
                         expiry |-> cardForm.expiry]
            /\ cardRuns' = Append(cardRuns, "pending")
            /\ UNCHANGED payToasts
    /\ UNCHANGED <<outsidePay, storeVars, isOpen, cardForm, payLocation>>

\* the simulated delay is over; addDoc(transactions) is issued: lines 92-95
CardDelayDone ==
    /\ payPc.at = "delay"
    /\ payPc' = [payPc EXCEPT !.at = "tx"]
    /\ UNCHANGED <<outsidePay, storeVars, isOpen, cardForm, payLoading, payToasts, payLocation, cardRuns>>

\* the catch and finally blocks: lines 126-131
CardFailed ==
    /\ payToasts' = Append(payToasts, "Payment failed")
    /\ payLoading' = FALSE
    /\ cardRuns' = [cardRuns EXCEPT ![payPc.run] = "failed"]
    /\ payPc' = PayIdle
    /\ UNCHANGED <<outsidePay, isOpen, cardForm, payLocation>>

\* the transaction write resolves; addDoc(investments) is issued: lines 95-110
CardTxResolve ==
    /\ payPc.at = "tx"
    /\ LET id == NewId("transactions", transactions)
       IN  /\ transactions' = Append(transactions,
                 CardTxDoc(id, payPc.email, payPc.digits, payPc.expiry, payPc.run))
           /\ payPc' = [at |-> "inv", run |-> payPc.run, email |-> payPc.email,
                        txId |-> id]
    /\ UNCHANGED <<outsidePay, investments, isOpen, cardForm, payLoading, payToasts, payLocation, cardRuns>>

\* the transaction write rejects
CardTxReject ==
    /\ payPc.at = "tx"
    /\ CardFailed
    /\ UNCHANGED storeVars

\* the investment write resolves: lines 110-125, then finally
CardInvResolve ==
    /\ payPc.at = "inv"
    /\ investments' = Append(investments,
           CardInvestmentDoc(NewId("investments", investments), payPc.email, payPc.txId, payPc.run))
    /\ payToasts' = Append(payToasts, "Payment submitted and investment created!")
    /\ isOpen' = FALSE
    /\ cardForm' = EmptyCardForm
    /\ payLocation' = "/transactions"
    /\ payLoading' = FALSE
    /\ cardRuns' = [cardRuns EXCEPT ![payPc.run] = "success"]
    /\ payPc' = PayIdle
    /\ UNCHANGED <<outsidePay, transactions>>

\* the investment write rejects
CardInvReject ==
    /\ payPc.at = "inv"
    /\ CardFailed
    /\ UNCHANGED storeVars

PayInit ==
    /\ user \in {NoUser, Alice}
    /\ transactions = <<>>
    /\ investments = <<>>
    /\ isOpen = TRUE
    /\ cardForm = EmptyCardForm
    /\ payLoading = FALSE
    /\ payPc = PayIdle
    /\ payToasts = <<>>
    /\ RegisterUnused
    /\ LoginUnused
    /\ ViewsUnused
    /\ payLocation = "/plans"
    /\ cardRuns = <<>>
    /\ users = <<>>
    /\ WalletUnused

PayNext ==
    \/ \E raw \in RawCardNumbers : SetCardNumber(raw)
    \/ \E raw \in RawExpiries : SetExpiry(raw)
    \/ \E raw \in RawCvcs : SetCvc(raw)
    \/ \E name \in Cardholders : SetCardholder(name)
    \/ \E c \in BOOLEAN : SetConfirmTerms(c)
    \/ OpenModal
    \/ CardSubmit
    \/ CardDelayDone
    \/ CardTxResolve
    \/ CardTxReject
    \/ CardInvResolve
    \/ CardInvReject

SpecPay == PayInit /\ [][PayNext]_vars

----------------------------------------------------------------------------
(* Claims about the card payment *)

\* positions of the documents of collection coll written by card run r
C1_CardDocsOf(coll, r) == {i \in 1..Len(coll) : coll[i].by = <<"card", r>>}

\* C1: a card payment whose form is valid and whose two writes succeed leaves
\* exactly one transaction and exactly one investment of its own, the
\* investment's transactionId being the identifier returned for the
\* transaction; the investment write is issued only once the transaction
\* write has completed (while the investment write is pending the
\* transaction is already stored, and before that nothing of the run is).
C1_CardPaymentOneTransactionThenOneInvestment ==
    /\ \A r \in 1..Len(cardRuns) :
          cardRuns[r] = "success" =>
             /\ Cardinality(C1_CardDocsOf(transactions, r)) = 1
             /\ Cardinality(C1_CardDocsOf(investments, r)) = 1
             /\ \A i \in C1_CardDocsOf(investments, r), j \in C1_CardDocsOf(transactions, r) :
                   investments[i].transactionId = transactions[j].id
    /\ payPc.at = "inv" =>
          /\ Cardinality(C1_CardDocsOf(transactions, payPc.run)) = 1
          /\ C1_CardDocsOf(investments, payPc.run) = {}
    /\ payPc.at \in {"delay", "tx"} =>
          /\ C1_CardDocsOf(transactions, payPc.run) = {}
          /\ C1_CardDocsOf(investments, payPc.run) = {}

\* C1 witness: two payments went through, each with its pair of records
C1_Witness_TwoPaymentsStored ==
    /\ Len(cardRuns) = 2
    /\ cardRuns[1] = "success" /\ cardRuns[2] = "success"
    /\ Len(transactions) = 2 /\ Len(investments) = 2
    /\ investments[2].transactionId = transactions[2].id

C2_DigitCount(s) == Len(SelectSeq(s, IsDigit))

\* two digits, a slash, two digits
C2_ExpiryWellFormed(e) ==
    /\ Len(e) = 5
    /\ e[3] = "/"
    /\ \A i \in {1, 2, 4, 5} : e[i] \in {"0", "1", "2", "3", "4", "5", "6", "7", "8", "9"}

C2_CvcThreeDigits(c) ==
    /\ Len(c) = 3
    /\ \A i \in 1..3 : c[i] \in {"0", "1", "2", "3", "4", "5", "6", "7", "8", "9"}

\* one of the five rules of the claim is broken by the form
C2_RuleBroken(form) ==
    \/ C2_DigitCount(form.cardNumber) # 16
    \/ ~C2_ExpiryWellFormed(form.expiry)
    \/ ~C2_CvcThreeDigits(form.cvc)
    \/ form.cardholder = ""
    \/ ~form.confirmTerms

\* C2: a click on Pay with a form that breaks one of the five rules (card
\* number not of exactly 16 digits, expiry not dd/dd, CVC not exactly three
\* digits, empty cardholder, terms unchecked) is rejected: no handler is left
\* running, nothing is written to transactions or investments, and a
\* signed-in user gets the error notification.
C2_InvalidCardFormIsRejected ==
    [][(Len(cardRuns') = Len(cardRuns) + 1 /\ C2_RuleBroken(cardForm)) =>
          /\ transactions' = transactions
          /\ investments' = investments
          /\ payPc' = PayIdle /\ ~payLoading'
          /\ cardRuns'[Len(cardRuns')] \in {"rejected", "nouser"}
          /\ user.email # NULL =>
                /\ cardRuns'[Len(cardRuns')] = "rejected"
                /\ payToasts' = Append(payToasts, "Invalid card details or terms not confirmed")
      ]_vars

\* C2 witness: a form whose only fault is a 15-digit card number was rejected
C2_Witness_FifteenDigitsRejected ==
    /\ cardRuns # <<>>
    /\ cardRuns[Len(cardRuns)] = "rejected"
    /\ C2_DigitCount(cardForm.cardNumber) = 15
    /\ C2_ExpiryWellFormed(cardForm.expiry)
    /\ C2_CvcThreeDigits(cardForm.cvc)
    /\ cardForm.cardholder # "" /\ cardForm.confirmTerms
    /\ transactions = <<>> /\ investments = <<>>

----------------------------------------------------------------------------
(* Wallet page: helpers *)

\* the browser sessions in which the signed-in user has the Wallet page open
Sessions == {"tabA", "tabB"}

\* clicks on Deposit and Withdraw followed in one behaviour
MaxWalletOps == 2

\* balance of the profile when the pages are opened, in cents
InitialBalances == {0, 2}

\* Wallet.tsx formatCardNumber: 1234 5678 9012 3456
walletFormatCardNumber(value) == Take(Trim(Group4(StripNonDigits(value))), 19)

\* Wallet.tsx formatExpiry: MM/YY
walletFormatExpiry(value) ==
    LET digits == StripNonDigits(value)
    IN  IF Len(digits) <= 2 THEN digits
        ELSE SubSeq(digits, 1, 2) \o <<"/">> \o SubSeq(digits, 3, Min(4, Len(digits)))

\* onChange of the CVC input: replace(/\D/g, '').slice(0, 4)
walletFormatCvc(value) == Take(StripNonDigits(value), 4)

\* parseFloat of the values the amount inputs take in the model; "" gives NaN
AmountTexts == {"", "0", "0.01", "0.02", "0.03"}

IsNaN(text) == text = ""

\* Math.round(parseFloat(text) * 100) for a text that is a number
Cents(text) ==
    CASE text = "0" -> 0
      [] text = "0.01" -> 1
      [] text = "0.02" -> 2
      [] text = "0.03" -> 3
      [] OTHER -> 0

\* !amount || amount <= 0
amountInvalid(text) == IsNaN(text) \/ Cents(text) = 0 \/ Cents(text) <= 0

EmptyDeposit == [amount |-> "", cardNumber |-> <<>>, expiry |-> <<>>, cvc |-> <<>>]

EmptyWithdraw == [amount |-> "", bankName |-> "", accountNumber |-> "", accountName |-> ""]

\* what a user types into the deposit dialog
RawDeposits ==
    {[amount |-> a, cardNumber |-> Digits(16), expiry |-> <<"1", "2", "2", "9">>,
      cvc |-> <<"1", "2", "3">>] : a \in {"", "0.01"}}
    \cup {[amount |-> "0.01", cardNumber |-> Digits(15), expiry |-> <<"1", "2", "2", "9">>,
           cvc |-> <<"1", "2", "3">>],
          [amount |-> "0.01", cardNumber |-> Digits(16), expiry |-> <<"1", "2", "2">>,
           cvc |-> <<"1", "2", "3">>],
          [amount |-> "0.01", cardNumber |-> Digits(16), expiry |-> <<"1", "2", "2", "9">>,
           cvc |-> <<"1", "2">>]}

\* what a user types into the withdraw dialog
RawWithdraws ==
    {[amount |-> a, bankName |-> "Bank", accountNumber |-> "0011", accountName |-> "A. Holder"]
        : a \in {"0", "0.01", "0.02", "0.03"}}
    \cup {[amount |-> "0.01", bankName |-> "Bank", accountNumber |-> "", accountName |-> "A. Holder"]}

\* a handleDeposit that checks the amount only
depositCheck_amountOnly(form) ==
    IF amountInvalid(form.amount) THEN "Enter valid amount" ELSE "ok"

\* the first failing check of handleDeposit, or "ok" (Wallet.tsx:125-129)
depositCheck(form) ==
    IF amountInvalid(form.amount) THEN "Enter valid amount"
    ELSE IF form.cardNumber = <<>> \/ Len(StripSpaces(form.cardNumber)) < 16
         THEN "Invalid card number"
    ELSE IF form.expiry = <<>> \/ ~expiryValid(form.expiry) THEN "Invalid expiry"
    ELSE IF form.cvc = <<>> \/ Len(form.cvc) < 3 THEN "Invalid CVC"
    ELSE "ok"

\* a handleWithdraw that does not compare the amount with the balance
withdrawCheck_noBalanceCheck(form, balance) ==
    IF amountInvalid(form.amount) THEN "Enter valid amount"
    ELSE IF form.bankName = "" \/ form.accountNumber = "" \/ form.accountName = ""
         THEN "Fill all bank details"
    ELSE "ok"

\* the first failing check of handleWithdraw, or "ok" (Wallet.tsx:159-162)
withdrawCheck(form, balance) ==
    IF amountInvalid(form.amount) THEN "Enter valid amount"
    ELSE IF Cents(form.amount) > balance THEN "Insufficient balance"
    ELSE IF form.bankName = "" \/ form.accountNumber = "" \/ form.accountName = ""
         THEN "Fill all bank details"
    ELSE "ok"

NoCard == [last4 |-> <<>>, expiry |-> <<>>]

\* the transaction documents the Wallet page appends (Wallet.tsx:139-146, 168-175)
WalletTxDoc(id, uid, type, amount, status, note, by) ==
    [id |-> id, userEmail |-> NULL, userId |-> uid, planId |-> NULL,
     amount |-> amount, type |-> type, method |-> NULL,
     status |-> status, card |-> NoCard, note |-> note, by |-> by]

\* the profile document of the signed-in user is in the store
HasProfile(uid) == uid \in DOMAIN users

\* data.balance || 0
StoredBalance(uid) == users[uid].balance

WIdle == [at |-> "idle"]

----------------------------------------------------------------------------
(* Wallet page: the two live feeds (useEffect, Wallet.tsx:79-121) *)

\* onSnapshot(userQuery): the profile feed delivers the stored balance.  While
\* the page's own balance write is pending, the feed shows that written value
\* (see the handlers), so the server's value is delivered once no write of the
\* page is pending.
UserSnapshot(s) ==
    /\ HasProfile(user.uid)
    /\ wPc[s].at # "update"
    /\ wBalance[s] # StoredBalance(user.uid)
    /\ wBalance' = [wBalance EXCEPT ![s] = StoredBalance(user.uid)]
    /\ UNCHANGED <<outsideWallet, users, transactions, wLoading, wModal,
                   wDeposit, wWithdraw, wPc, wToast, wClicks, wLast>>

\* onSnapshot(txQuery): the first delivery clears the spinner.  (The list it
\* replaces is only displayed; no handler reads it, and later deliveries
\* change nothing else.)
TxSnapshot(s) ==
    /\ wLoading[s]
    /\ wLoading' = [wLoading EXCEPT ![s] = FALSE]
    /\ UNCHANGED <<outsideWallet, users, transactions, wBalance, wModal,
                   wDeposit, wWithdraw, wPc, wToast, wClicks, wLast>>

----------------------------------------------------------------------------
(* Wallet page: dialogs and forms *)

\* the Deposit button (Wallet.tsx:227)
OpenDeposit(s) ==
    /\ ~wLoading[s] /\ wModal[s] = "none"
    /\ wModal' = [wModal EXCEPT ![s] = "deposit"]
    /\ UNCHANGED <<outsideWallet, users, transactions, wBalance, wLoading,
                   wDeposit, wWithdraw, wPc, wToast, wClicks, wLast>>

\* the Withdraw button, disabled while the balance shown is 0 (Wallet.tsx:234-237)
OpenWithdraw(s) ==
    /\ ~wLoading[s] /\ wModal[s] = "none"
    /\ wBalance[s] # 0
    /\ wModal' = [wModal EXCEPT ![s] = "withdraw"]
    /\ UNCHANGED <<outsideWallet, users, transactions, wBalance, wLoading,
                   wDeposit, wWithdraw, wPc, wToast, wClicks, wLast>>

\* the Cancel buttons (Wallet.tsx:341, 397)
CancelDialog(s) ==
    /\ wModal[s] # "none"
    /\ wModal' = [wModal EXCEPT ![s] = "none"]
    /\ IF wModal[s] = "deposit"
       THEN wDeposit' = [wDeposit EXCEPT ![s] = EmptyDeposit] /\ UNCHANGED wWithdraw
       ELSE wWithdraw' = [wWithdraw EXCEPT ![s] = EmptyWithdraw] /\ UNCHANGED wDeposit
    /\ UNCHANGED <<outsideWallet, users, transactions, wBalance, wLoading,
                   wPc, wToast, wClicks, wLast>>

\* the deposit dialog as the onChange handlers leave it once the user has typed raw
typedDeposit(raw) ==
    [amount |-> raw.amount,
     cardNumber |-> walletFormatCardNumber(raw.cardNumber),
     expiry |-> walletFormatExpiry(raw.expiry),
     cvc |-> walletFormatCvc(raw.cvc)]

----------------------------------------------------------------------------
(* Wallet page: handleDeposit (Wallet.tsx:124-155) *)

\* the user types raw into the dialog and clicks Deposit: the four checks,
\* then getDocs is issued.  (Only this handler reads the fields, so typing and
\* clicking are one step.)
DepositClick(s, raw) ==
    /\ wModal[s] = "deposit" /\ wPc[s] = WIdle
    /\ wClicks < MaxWalletOps
    /\ wClicks' = wClicks + 1
    /\ LET form == typedDeposit(raw)
           verdict == depositCheck(form)
       IN  /\ wDeposit' = [wDeposit EXCEPT ![s] = form]
           /\ wLast' = [s |-> s, kind |-> "deposit"]
           /\ IF verdict = "ok"
              THEN /\ wPc' = [wPc EXCEPT ![s] =
                          [at |-> "read", kind |-> "deposit", run |-> wClicks + 1,
                           amount |-> Cents(form.amount),
                           note |-> LastN(form.cardNumber, 4)]]
                   /\ UNCHANGED wToast
              ELSE /\ wToast' = [wToast EXCEPT ![s] = verdict]
                   /\ UNCHANGED wPc
    /\ UNCHANGED <<outsideWallet, users, transactions, wBalance, wLoading,
                   wModal, wWithdraw>>

\* a catch block that puts back the balance its handler had replaced
HandlerFailed_rollsBack(s, message) ==
    /\ wToast' = [wToast EXCEPT ![s] = message]
    /\ wPc' = [wPc EXCEPT ![s] = WIdle]
    /\ users' = IF wPc[s].at = "add"
                THEN [users EXCEPT ![user.uid].balance = wPc[s].before]
                ELSE users
    /\ UNCHANGED <<outsideWallet, transactions, wBalance, wLoading,
                   wModal, wDeposit, wWithdraw, wClicks, wLast>>

\* the catch block of a handler: toast, nothing else
HandlerFailed(s, message) ==
    /\ wToast' = [wToast EXCEPT ![s] = message]
    /\ wPc' = [wPc EXCEPT ![s] = WIdle]
    /\ UNCHANGED <<outsideWallet, users, transactions, wBalance, wLoading,
                   wModal, wDeposit, wWithdraw, wClicks, wLast>>

\* getDocs resolves: currentBalance is read and updateDoc(currentBalance + amount)
\* is issued; an empty result throws 'User not found'
DepositRead(s) ==
    /\ wPc[s].at = "read"
    /\ IF ~HasProfile(user.uid)
       THEN HandlerFailed(s, "Deposit failed")
       ELSE LET value == StoredBalance(user.uid) + wPc[s].amount
            IN  /\ wPc' = [wPc EXCEPT ![s] = [@ EXCEPT !.at = "update"] @@ [value |-> value]]
                /\ wBalance' = [wBalance EXCEPT ![s] = value]
                /\ UNCHANGED <<outsideWallet, users, transactions, wLoading,
                               wModal, wDeposit, wWithdraw, wToast, wClicks, wLast>>

\* getDocs rejects
DepositReadReject(s) ==
    /\ wPc[s].at = "read"
    /\ HandlerFailed(s, "Deposit failed")

\* updateDoc resolves: the balance is overwritten; addDoc is issued.  (History:
\* `before` keeps the balance the write replaced.)
BalanceWriteResolve(s) ==
    /\ wPc[s].at = "update"
    /\ HasProfile(user.uid)
    /\ users' = [users EXCEPT ![user.uid].balance = wPc[s].value]
    /\ wPc' = [wPc EXCEPT ![s] = [@ EXCEPT !.at = "add"] @@ [before |-> StoredBalance(user.uid)]]
    /\ UNCHANGED <<outsideWallet, transactions, wBalance, wLoading,
                   wModal, wDeposit, wWithdraw, wToast, wClicks, wLast>>

\* updateDoc rejects: the catch block runs, and the profile feed takes back the
\* value it showed for the pending write
BalanceWriteReject(s) ==
    /\ wPc[s].at = "update"
    /\ HasProfile(user.uid)
    /\ wToast' = [wToast EXCEPT ![s] =
          IF wPc[s].kind = "deposit" THEN "Deposit failed" ELSE "Withdrawal failed"]
    /\ wPc' = [wPc EXCEPT ![s] = WIdle]
    /\ wBalance' = [wBalance EXCEPT ![s] = StoredBalance(user.uid)]
    /\ UNCHANGED <<outsideWallet, users, transactions, wLoading,
                   wModal, wDeposit, wWithdraw, wClicks, wLast>>

\* addDoc resolves: toast, dialog closed, form reset (Wallet.tsx:139-150)
DepositAddResolve(s) ==
    /\ wPc[s].at = "add" /\ wPc[s].kind = "deposit"
    /\ transactions' = Append(transactions,
           WalletTxDoc(NewId("transactions", transactions), user.uid, "deposit",
                       wPc[s].amount, "success", wPc[s].note, <<s, wPc[s].run>>))
    /\ wToast' = [wToast EXCEPT ![s] = "Deposit successful!"]
    /\ wModal' = [wModal EXCEPT ![s] = "none"]
    /\ wDeposit' = [wDeposit EXCEPT ![s] = EmptyDeposit]
    /\ wPc' = [wPc EXCEPT ![s] = WIdle]
    /\ UNCHANGED <<outsideWallet, users, wBalance, wLoading, wWithdraw, wClicks, wLast>>

\* addDoc rejects
AddReject(s) ==
    /\ wPc[s].at = "add"
    /\ HandlerFailed(s, IF wPc[s].kind = "deposit" THEN "Deposit failed" ELSE "Withdrawal failed")

----------------------------------------------------------------------------
(* Wallet page: handleWithdraw (Wallet.tsx:158-184) *)

\* the user types raw into the dialog and clicks Withdraw: the three checks
\* against the balance the page holds, then updateDoc(balance - amount) is issued
WithdrawClick(s, raw) ==
    /\ wModal[s] = "withdraw" /\ wPc[s] = WIdle
    /\ wClicks < MaxWalletOps
    /\ wClicks' = wClicks + 1
    /\ LET verdict == withdrawCheck(raw, wBalance[s])
           amount == Cents(raw.amount)
       IN  /\ wWithdraw' = [wWithdraw EXCEPT ![s] = raw]
           /\ wLast' = [s |-> s, kind |-> "withdrawal"]
           /\ IF verdict = "ok"
              THEN /\ wPc' = [wPc EXCEPT ![s] =
                          [at |-> "update", kind |-> "withdrawal", run |-> wClicks + 1,
                           amount |-> amount, note |-> raw.bankName,
                           value |-> wBalance[s] - amount]]
                   /\ wBalance' = [wBalance EXCEPT ![s] = wBalance[s] - amount]
                   /\ UNCHANGED wToast
              ELSE /\ wToast' = [wToast EXCEPT ![s] = verdict]
                   /\ UNCHANGED <<wPc, wBalance>>
    /\ UNCHANGED <<outsideWallet, users, transactions, wLoading,
                   wModal, wDeposit>>

\* addDoc resolves: toast, dialog closed, form reset (Wallet.tsx:168-179)
WithdrawAddResolve(s) ==
    /\ wPc[s].at = "add" /\ wPc[s].kind = "withdrawal"
    /\ transactions' = Append(transactions,
           WalletTxDoc(NewId("transactions", transactions), user.uid, "withdrawal",
                       wPc[s].amount, "pending", wPc[s].note, <<s, wPc[s].run>>))
    /\ wToast' = [wToast EXCEPT ![s] = "Withdrawal request submitted!"]
    /\ wModal' = [wModal EXCEPT ![s] = "none"]
    /\ wWithdraw' = [wWithdraw EXCEPT ![s] = EmptyWithdraw]
    /\ wPc' = [wPc EXCEPT ![s] = WIdle]
    /\ UNCHANGED <<outsideWallet, users, wBalance, wLoading, wDeposit, wClicks, wLast>>

----------------------------------------------------------------------------
(* Wallet page: specification *)

Profile(balance) == [balance |-> balance]

\* the Wallet page as it is mounted in every session
WalletMounted ==
    /\ user = Alice
    /\ transactions = <<>>
    /\ investments = <<>>
    /\ isOpen = FALSE /\ cardForm = EmptyCardForm /\ payLoading = FALSE
    /\ payPc = PayIdle /\ payToasts = <<>> /\ payLocation = "/wallet" /\ cardRuns = <<>>
    /\ \/ users = <<>>
       \/ \E b \in InitialBalances : users = (Alice.uid :> Profile(b))
    /\ wBalance = [s \in Sessions |-> 0]
    /\ wLoading = [s \in Sessions |-> TRUE]
    /\ wModal = [s \in Sessions |-> "none"]
    /\ wDeposit = [s \in Sessions |-> EmptyDeposit]
    /\ wWithdraw = [s \in Sessions |-> EmptyWithdraw]
    /\ wPc = [s \in Sessions |-> WIdle]
    /\ wToast = [s \in Sessions |-> ""]
    /\ wClicks = 0
    /\ wLast = [s |-> "", kind |-> ""]

WalletInit ==
    /\ WalletMounted
    /\ RegisterUnused
    /\ LoginUnused
    /\ ViewsUnused

\* the steps of the Wallet page of session s
WalletSteps(s) ==
    \/ UserSnapshot(s)
    \/ TxSnapshot(s)
    \/ OpenDeposit(s)
    \/ OpenWithdraw(s)
    \/ CancelDialog(s)
    \/ \E raw \in RawDeposits : DepositClick(s, raw)
    \/ DepositRead(s)
    \/ DepositReadReject(s)
    \/ BalanceWriteResolve(s)
    \/ BalanceWriteReject(s)
    \/ DepositAddResolve(s)
    \/ AddReject(s)
    \/ \E raw \in RawWithdraws : WithdrawClick(s, raw)
    \/ WithdrawAddResolve(s)

WalletNext == \E s \in Sessions : WalletSteps(s)

SpecWallet == WalletInit /\ [][WalletNext]_vars

----------------------------------------------------------------------------
(* Claims about the Wallet page *)

\* session s has just seen its addDoc resolve: the handler ends in success
C4_AddResolved(s, kind) ==
    /\ wPc[s].at = "add" /\ wPc[s].kind = kind
    /\ wPc'[s] = WIdle
    /\ Len(transactions') = Len(transactions) + 1

\* C3: a withdrawal whose amount exceeds the balance the store holds at the
\* moment of the click is rejected: no balance write is issued, nothing is
\* appended, whatever balance the page last received from its feed.
C3_WithdrawalOverStoredBalanceRejected ==
    [][\A s \in Sessions :
          (/\ wClicks' = wClicks + 1
           /\ wLast' = [s |-> s, kind |-> "withdrawal"]
           /\ HasProfile(user.uid)
           /\ ~amountInvalid(wWithdraw'[s].amount)
           /\ Cents(wWithdraw'[s].amount) > StoredBalance(user.uid))
          => /\ wPc'[s] = WIdle
             /\ wToast'[s] = "Insufficient balance"
             /\ users' = users /\ transactions' = transactions
      ]_vars

\* C4: a withdrawal that went through (both writes resolved) left the stored
\* balance at exactly the balance its write replaced minus the amount, and
\* appended one 'withdrawal' record carrying the amount.
C4_WithdrawalDecreasesStoredBalanceByAmount ==
    [][\A s \in Sessions :
          C4_AddResolved(s, "withdrawal") =>
             /\ wPc[s].value = wPc[s].before - wPc[s].amount
             /\ transactions'[Len(transactions')].type = "withdrawal"
             /\ transactions'[Len(transactions')].amount = wPc[s].amount
      ]_vars

\* C5: a deposit that went through (valid form, both writes resolved) left
\* the stored balance at exactly the balance its write replaced plus the
\* amount, and appended one 'deposit' record with status 'success' carrying
\* the amount.
C5_DepositIncreasesStoredBalanceByAmount ==
    [][\A s \in Sessions :
          C4_AddResolved(s, "deposit") =>
             /\ wPc[s].value = wPc[s].before + wPc[s].amount
             /\ transactions'[Len(transactions')].type = "deposit"
             /\ transactions'[Len(transactions')].status = "success"
             /\ transactions'[Len(transactions')].amount = wPc[s].amount
      ]_vars

----------------------------------------------------------------------------
(* Registration pages: helpers *)

\* the two variants of the Register component
RegPages == {"phone", "email"}

\* increment(1000) of handleReferralBonus
ReferralBonus == 1000

\* most submissions that pass validation, over both pages
MaxRegistrations == 2

\* results of generateReferralCode: 8 characters drawn at random
CodeA == Rep("A", 8)
CodeB == Rep("B", 8)

\* chars of generateReferralCode
chars ==
    <<"A", "B", "C", "D", "E", "F", "G", "H", "I", "J", "K", "L", "M",
      "N", "O", "P", "Q", "R", "S", "T", "U", "V", "W", "X", "Y", "Z",
      "0", "1", "2", "3", "4", "5", "6", "7", "8", "9">>

\* a generator whose loop stops one character early
generateReferralCode_sevenChars(draws) == [i \in 1..7 |-> chars[draws[i] + 1]]

\* generateReferralCode(): eight times chars.charAt(Math.floor(Math.random() *
\* chars.length)); draws[i] is the i-th floored random index, in 0..35
generateReferralCode(draws) == [i \in 1..8 |-> chars[draws[i] + 1]]

\* the random draws of the model: all on "N", and alternating between the
\* last letter and the last digit of chars
Draws == {Rep(13, 8), [i \in 1..8 |-> IF i % 2 = 1 THEN 25 ELSE 35]}

CodeN == generateReferralCode(Rep(13, 8))

\* the codes the new profiles of the model receive
GeneratedCodes == {generateReferralCode(draws) : draws \in Draws}

\* /^\+?[1-9]\d{1,14}$/.test(s)
phoneRe(s) ==
    LET body == IF s # <<>> /\ s[1] = "+" THEN Tail(s) ELSE s
    IN  /\ Len(body) >= 2
        /\ Len(body) <= 15
        /\ IsDigit(body[1])
        /\ body[1] # "0"
        /\ AllDigits(body)

\* formData.phone.replace(/\s/g, '')
cleanPhone(form) == StripSpaces(form.phone)

\* an e-mail address: the part before the @ and the part after it
Email(local, domain) == [local |-> local, domain |-> domain]

NoEmail == Email(<<>>, "")

\* `${cleanPhone}@lunorise.app`
dummyEmail(form) == Email(cleanPhone(form), "lunorise.app")

\* the address the page registers the identity under
identityEmail(page, form) == IF page = "phone" THEN dummyEmail(form) ELSE form.email

Secret == <<"s", "e", "c", "r", "e", "t">>
Secret5 == <<"s", "e", "c", "r", "e">>
Other == <<"s", "e", "c", "r", "e", "T">>

RegForm(name, email, phone, country, password, confirmPassword, referralCode) ==
    [name |-> name, email |-> email, phone |-> phone, country |-> country,
     password |-> password, confirmPassword |-> confirmPassword,
     referralCode |-> referralCode]

Ann == <<"A", "n", "n">>
Plus12 == <<"+", "1", "2">>
Plus1Space2 == <<"+", "1", " ", "2">>

\* what a visitor submits on the phone page (this page has no e-mail field)
PhoneForms ==
         {RegForm(Ann, NoEmail, Plus12, "NG", Secret, Secret, <<>>),
          RegForm(Ann, NoEmail, Plus1Space2, "NG", Secret, Secret, <<>>),
          RegForm(<<" ", " ">>, NoEmail, Plus12, "NG", Secret, Secret, <<>>),
          RegForm(Ann, NoEmail, <<>>, "NG", Secret, Secret, <<>>),
          RegForm(Ann, NoEmail, Plus12, "", Secret, Secret, <<>>),
          RegForm(Ann, NoEmail, Plus12, "NG", Secret, Other, <<>>),
          RegForm(Ann, NoEmail, Plus12, "NG", Secret5, Secret5, <<>>),
          RegForm(Ann, NoEmail, Plus12, "NG", Secret5, Secret, <<>>),
          RegForm(Ann, NoEmail, <<"0", "1", "2">>, "NG", Secret, Secret, <<>>),
          RegForm(Ann, NoEmail, <<"+", "1">>, "NG", Secret, Secret, <<>>),
          RegForm(Ann, NoEmail, Digits(16), "NG", Secret, Secret, <<>>)}

Mail == Email(<<"a", "n", "n">>, "example.com")

\* what a visitor submits on the e-mail page (this page has no name field)
EmailForms ==
         {RegForm(<<>>, Mail, Plus12, "NG", Secret, Secret, <<>>),
          RegForm(<<>>, Mail, Plus12, "", Secret, Secret, <<>>),
          RegForm(<<>>, Mail, Plus12, "NG", Secret, Other, <<>>),
          RegForm(<<>>, Mail, Plus12, "NG", Secret5, Secret5, <<>>),
          RegForm(<<>>, Mail, <<"a", "b", "c">>, "NG", Secret, Secret, <<>>)}

RegForms(page) == IF page = "phone" THEN PhoneForms ELSE EmailForms

\* valid forms that differ in the referral code only: none, the code of a
\* referrer, another code
ReferredForms(page) ==
    {IF page = "phone"
     THEN RegForm(Ann, NoEmail, Plus12, "NG", Secret, Secret, code)
     ELSE RegForm(<<>>, Mail, Plus12, "NG", Secret, Secret, code) :
        code \in {<<>>, CodeA, CodeB}}

\* checks that look at the length of the password before they compare it
\* with its confirmation
phoneCheck_lengthFirst(form) ==
    IF Trim(form.name) = <<>> THEN "Enter your name"
    ELSE IF form.phone = <<>> THEN "Enter phone number"
    ELSE IF form.country = "" THEN "Select your country"
    ELSE IF Len(form.password) < 6 THEN "Password >= 6 characters"
    ELSE IF form.password # form.confirmPassword THEN "Passwords do not match"
    ELSE IF ~phoneRe(cleanPhone(form)) THEN "Invalid phone number"
    ELSE ""

\* the checks of handleSubmit before setLoading(true): the message of the
\* first one that fails, "" when all pass
phoneCheck(form) ==
    IF Trim(form.name) = <<>> THEN "Enter your name"
    ELSE IF form.phone = <<>> THEN "Enter phone number"
    ELSE IF form.country = "" THEN "Select your country"
    ELSE IF form.password # form.confirmPassword THEN "Passwords do not match"
    ELSE IF Len(form.password) < 6 THEN "Password >= 6 characters"
    ELSE IF ~phoneRe(cleanPhone(form)) THEN "Invalid phone number"
    ELSE ""

\* the checks of handleEmailSignUp before setLoading(true)
emailCheck(form) ==
    IF form.country = "" THEN "Please fill all required fields"
    ELSE IF form.password # form.confirmPassword THEN "Passwords do not match"
    ELSE ""

regCheck(page, form) == IF page = "phone" THEN phoneCheck(form) ELSE emailCheck(form)

\* formData.referralCode || null; null is the one-element sequence <<NULL>>,
\* which no string of characters equals
orNull(s) == IF s # <<>> THEN s ELSE <<NULL>>

\* the profile document each handler writes with setDoc
PhoneProfileDoc(form, code) ==
    [name |-> Trim(form.name), email |-> NoEmail, phone |-> form.phone,
     country |-> form.country, balance |-> 0, referralCode |-> code,
     referrerCode |-> orNull(form.referralCode), authMethod |-> "phone"]

EmailProfileDoc(form, code) ==
    [name |-> <<>>, email |-> form.email, phone |-> form.phone,
     country |-> form.country, balance |-> 0, referralCode |-> code,
     referrerCode |-> orNull(form.referralCode), authMethod |-> ""]

ProfileDoc(page, form, code) ==
    IF page = "phone" THEN PhoneProfileDoc(form, code) ELSE EmailProfileDoc(form, code)

\* the profiles that exist before anyone registers: two referrers
Referrer(code, balance) ==
    [name |-> <<"R">>, email |-> NoEmail, phone |-> <<"+", "9", "9">>, country |-> "NG",
     balance |-> balance, referralCode |-> code, referrerCode |-> <<NULL>>,
     authMethod |-> "phone"]

Referrers == {"uid-ref1", "uid-ref2"}

\* user ids the authentication service hands out, in order
Uids == <<"uid-1", "uid-2", "uid-3", "uid-4">>

NewUid == Uids[Len(identities) + 1]

\* a query that stops at the first match
matchingProfiles_firstOnly(code) ==
    LET all == {p \in DOMAIN users : users[p].referralCode = code}
    IN  IF all = {} THEN {} ELSE {CHOOSE p \in all : TRUE}

\* where('referralCode', '==', code): the ids of the query snapshot
matchingProfiles(code) == {p \in DOMAIN users : users[p].referralCode = code}

\* a bonus that is granted once per referrer
incremented_onlyOnce(balance) ==
    IF balance >= ReferralBonus THEN balance ELSE balance + ReferralBonus

\* balance: increment(1000), applied by the store to the stored value
incremented(balance) == balance + ReferralBonus

\* errors a remote call rejects with
EmailInUse == [code |-> "auth/email-already-in-use", message |-> "Firebase: Error (auth/email-already-in-use)."]
Unavailable == [code |-> "unavailable", message |-> ""]

RegIdle == [at |-> "idle"]

RegToast(kind, message) == [kind |-> kind, message |-> message]

----------------------------------------------------------------------------
(* Registration pages: handleSubmit (phone) and handleEmailSignUp (e-mail) *)

\* the visitor opens the registration page (again)
OpenRegister(page) ==
    /\ regPc[page].at = "idle"
    /\ regLocation[page] # "/auth/register"
    /\ regLocation' = [regLocation EXCEPT ![page] = "/auth/register"]
    /\ UNCHANGED <<outsideRegister, users, identities, credits, creditLog, regPc, regToast, regRuns>>

\* the visitor fills the form in and submits it: the checks, then
\* setLoading(true) and the call that creates the identity
RegSubmit(page, form) ==
    /\ regLocation[page] = "/auth/register"
    /\ regPc[page].at = "idle"
    /\ IF regCheck(page, form) # ""
       THEN /\ regToast' = [regToast EXCEPT ![page] = RegToast("error", regCheck(page, form))]
            /\ UNCHANGED <<regPc, regRuns>>
       ELSE /\ Len(regRuns) < MaxRegistrations
            /\ regPc' = [regPc EXCEPT ![page] =
                   [at |-> "createUser", form |-> form, run |-> Len(regRuns) + 1,
                    uid |-> NULL, code |-> <<>>]]
            /\ regRuns' = Append(regRuns,
                   [referralCode |-> form.referralCode, outcome |-> "pending"])
            /\ UNCHANGED regToast
    /\ UNCHANGED <<outsideRegister, users, identities, credits, creditLog, regLocation>>

\* catch and finally of both handlers
RegFailed(page, err) ==
    /\ regToast' = [regToast EXCEPT ![page] =
           IF page = "phone" /\ err.code = "auth/email-already-in-use"
           THEN RegToast("error", "Phone number already registered")
           ELSE IF err.message # ""
           THEN RegToast("error", err.message)
           ELSE RegToast("error", "Registration failed")]
    /\ regPc' = [regPc EXCEPT ![page] = RegIdle]
    /\ regRuns' = [regRuns EXCEPT ![regPc[page].run].outcome = "failed"]
    /\ UNCHANGED <<outsideRegister, regLocation>>

\* toast.success, navigate and finally of both handlers
RegSucceeded(page) ==
    /\ regToast' = [regToast EXCEPT ![page] =
           IF page = "phone"
           THEN RegToast("success", "Account created!")
           ELSE RegToast("success", "Account created! Check your email for verification.")]
    /\ regLocation' = [regLocation EXCEPT ![page] =
           IF page = "phone" THEN "/dashboard" ELSE "/auth/login"]
    /\ regPc' = [regPc EXCEPT ![page] = RegIdle]
    /\ regRuns' = [regRuns EXCEPT ![regPc[page].run].outcome = "success"]
    /\ UNCHANGED outsideRegister

EmailTaken(email) == \E i \in 1..Len(identities) : identities[i].email = email

\* createUserWithEmailAndPassword resolves: the service holds a new identity
CreateUserResolve(page, code) ==
    /\ regPc[page].at = "createUser"
    /\ ~EmailTaken(identityEmail(page, regPc[page].form))
    /\ identities' = Append(identities,
           [uid |-> NewUid, email |-> identityEmail(page, regPc[page].form),
            password |-> regPc[page].form.password, emailVerified |-> FALSE])
    /\ regPc' = [regPc EXCEPT ![page] =
           [@ EXCEPT !.at = IF page = "phone" THEN "setDoc" ELSE "verify",
                     !.uid = NewUid, !.code = code]]
    /\ UNCHANGED <<outsideRegister, users, credits, creditLog, regToast, regLocation, regRuns>>

\* createUserWithEmailAndPassword rejects
CreateUserReject(page) ==
    /\ regPc[page].at = "createUser"
    /\ RegFailed(page, IF EmailTaken(identityEmail(page, regPc[page].form))
                       THEN EmailInUse ELSE Unavailable)
    /\ UNCHANGED <<users, identities, credits, creditLog>>

\* sendEmailVerification resolves (e-mail page only)
VerificationSent(page) ==
    /\ regPc[page].at = "verify"
    /\ regPc' = [regPc EXCEPT ![page].at = "setDoc"]
    /\ UNCHANGED <<outsideRegister, users, identities, credits, creditLog, regToast, regLocation, regRuns>>

\* sendEmailVerification rejects
VerificationReject(page) ==
    /\ regPc[page].at = "verify"
    /\ RegFailed(page, Unavailable)
    /\ UNCHANGED <<users, identities, credits, creditLog>>

\* setDoc resolves: the profile is stored; without a referral code the
\* handler is done, with one it asks for the profiles that carry the code
SetDocResolve(page) ==
    /\ regPc[page].at = "setDoc"
    /\ users' = (regPc[page].uid :> ProfileDoc(page, regPc[page].form, regPc[page].code)) @@ users
    /\ IF regPc[page].form.referralCode # <<>>
       THEN /\ regPc' = [regPc EXCEPT ![page].at = "query"]
            /\ UNCHANGED <<outsideRegister, regToast, regLocation, regRuns>>
       ELSE RegSucceeded(page)
    /\ UNCHANGED <<identities, credits, creditLog>>

\* setDoc rejects
SetDocReject(page) ==
    /\ regPc[page].at = "setDoc"
    /\ RegFailed(page, Unavailable)
    /\ UNCHANGED <<users, identities, credits, creditLog>>

\* a handleReferralBonus that waits for its writes before it returns
ReferralQueryResolve_awaitsWrites(page) ==
    /\ regPc[page].at = "query"
    /\ LET to == matchingProfiles(regPc[page].form.referralCode)
       IN  /\ users' = [p \in DOMAIN users |->
                  IF p \in to THEN [users[p] EXCEPT !.balance = incremented(@)]
                  ELSE users[p]]
           /\ creditLog' = [p \in DOMAIN creditLog |->
                  IF p \in to THEN [creditLog[p] EXCEPT !.applied = @ + 1]
                  ELSE creditLog[p]]
    /\ RegSucceeded(page)
    /\ UNCHANGED <<identities, credits>>

\* getDocs of handleReferralBonus resolves: forEach starts one credit write
\* per document of the snapshot and does not wait for any of them
ReferralQueryResolve(page) ==
    /\ regPc[page].at = "query"
    /\ credits' = credits \cup
           {[run |-> regPc[page].run, to |-> p] :
                p \in matchingProfiles(regPc[page].form.referralCode)}
    /\ RegSucceeded(page)
    /\ UNCHANGED <<users, identities, creditLog>>

\* getDocs of handleReferralBonus rejects
ReferralQueryReject(page) ==
    /\ regPc[page].at = "query"
    /\ RegFailed(page, Unavailable)
    /\ UNCHANGED <<users, identities, credits, creditLog>>

\* the store applies a credit write: updateDoc with increment(1000)
CreditApply(c) ==
    /\ c \in credits
    /\ c.to \in DOMAIN users
    /\ users' = [users EXCEPT ![c.to].balance = incremented(@)]
    /\ credits' = credits \ {c}
    /\ creditLog' = [creditLog EXCEPT ![c.to].applied = @ + 1]
    /\ UNCHANGED <<outsideRegister, identities, regPc, regToast, regLocation, regRuns>>

\* the store rejects a credit write: nobody awaits the promise
CreditReject(c) ==
    /\ c \in credits
    /\ credits' = credits \ {c}
    /\ creditLog' = [creditLog EXCEPT ![c.to].rejected = @ + 1]
    /\ UNCHANGED <<outsideRegister, users, identities, regPc, regToast, regLocation, regRuns>>

----------------------------------------------------------------------------
(* Registration pages: specification *)

\* the payment modal is not mounted and the collections it writes are empty
PayUnused ==
    /\ transactions = <<>> /\ investments = <<>>
    /\ isOpen = FALSE /\ cardForm = EmptyCardForm /\ payLoading = FALSE
    /\ payPc = PayIdle /\ payToasts = <<>> /\ payLocation = "" /\ cardRuns = <<>>

RegisterInit ==
    /\ user = NoUser
    /\ PayUnused
    /\ WalletUnused
    /\ ViewsUnused
    /\ LoginUnused
    /\ identities = <<>>
    /\ \E code \in {CodeA, CodeB} :
           users = ("uid-ref1" :> Referrer(CodeA, 0)) @@ ("uid-ref2" :> Referrer(code, 500))
    /\ credits = {}
    /\ creditLog = [p \in Referrers \cup {Uids[i] : i \in 1..Len(Uids)} |->
                        [applied |-> 0, rejected |-> 0]]
    /\ regPc = [page \in RegPages |-> RegIdle]
    /\ regToast = [page \in RegPages |-> RegToast("", "")]
    /\ regLocation = [page \in RegPages |-> "/auth/register"]
    /\ regRuns = <<>>

\* the visitors register without referral codes
RegisterNext ==
    \/ \E page \in RegPages : OpenRegister(page)
    \/ \E page \in RegPages : \E form \in RegForms(page) : RegSubmit(page, form)
    \/ \E page \in RegPages : \E code \in GeneratedCodes : CreateUserResolve(page, code)
    \/ \E page \in RegPages : CreateUserReject(page)
    \/ \E page \in RegPages : VerificationSent(page)
    \/ \E page \in RegPages : VerificationReject(page)
    \/ \E page \in RegPages : SetDocResolve(page)
    \/ \E page \in RegPages : SetDocReject(page)

SpecRegister == RegisterInit /\ [][RegisterNext]_vars

\* the visitors submit valid forms, with and without referral codes
ReferralNext ==
    \/ \E page \in RegPages : OpenRegister(page)
    \/ \E page \in RegPages : \E form \in ReferredForms(page) : RegSubmit(page, form)
    \/ \E page \in RegPages : \E code \in GeneratedCodes : CreateUserResolve(page, code)
    \/ \E page \in RegPages : CreateUserReject(page)
    \/ \E page \in RegPages : VerificationSent(page)
    \/ \E page \in RegPages : VerificationReject(page)
    \/ \E page \in RegPages : SetDocResolve(page)
    \/ \E page \in RegPages : SetDocReject(page)
    \/ \E page \in RegPages : ReferralQueryResolve(page)
    \/ \E page \in RegPages : ReferralQueryReject(page)
    \/ \E c \in credits : CreditApply(c)
    \/ \E c \in credits : CreditReject(c)

SpecReferral == RegisterInit /\ [][ReferralNext]_vars

----------------------------------------------------------------------------
(* Referral bonus: claims *)

C6_InitialBalance(p) == IF p = "uid-ref1" THEN 0 ELSE 500

\* the successful registrations so far that supplied the code
C6_SuccessfulWith(code) ==
    Cardinality({i \in 1..Len(regRuns) :
        regRuns[i].referralCode = code /\ regRuns[i].outcome = "success"})

C6_InFlight(p) == Cardinality({c \in credits : c.to = p})

\* C6: every successful registration that supplies code C issues one credit
\* write to the referrer whose code is C, and every credit write the store
\* applies raises that referrer's stored balance by exactly 1000, whatever
\* the number of earlier registrations and however the registrations and the
\* writes interleave: the balance has grown by 1000 times the number of
\* writes applied, and the writes applied, rejected and still in flight are
\* one for each such registration.
C6_EachReferredRegistrationAddsTheBonus ==
    \A p \in Referrers :
        /\ users[p].balance =
               C6_InitialBalance(p) + ReferralBonus * creditLog[p].applied
        /\ creditLog[p].applied + creditLog[p].rejected + C6_InFlight(p) =
               C6_SuccessfulWith(users[p].referralCode)

\* two registrations with code A succeeded and both credits reached the
\* first referrer
C6_Witness_TwoRegistrationsTwoBonuses ==
    /\ C6_SuccessfulWith(CodeA) = 2
    /\ creditLog["uid-ref1"].applied = 2
    /\ users["uid-ref1"].balance = 2 * ReferralBonus

\* C7: when a registration supplies a referral code, handleReferralBonus
\* starts one credit write for every profile whose referral code equals the
\* supplied code (all of them when several share it) and for no other
\* profile, and a balance only ever changes by the bonus, on a profile whose
\* code is the one the crediting registration supplied.
C7_BonusGoesToExactlyTheMatchingProfiles ==
    [][/\ \A page \in RegPages :
              (regPc[page].at = "query" /\ regPc'[page].at = "idle"
                   /\ regToast'[page].kind = "success")
              => /\ {c.to : c \in credits' \ credits} =
                        {p \in DOMAIN users :
                             users[p].referralCode = regPc[page].form.referralCode}
                 /\ \A c \in credits' \ credits : c.run = regPc[page].run
       /\ \A p \in DOMAIN users :
              users'[p].balance # users[p].balance
              => \E c \in credits \ credits' :
                     /\ c.to = p
                     /\ users[p].referralCode = regRuns[c.run].referralCode
                     /\ users'[p].balance = users[p].balance + ReferralBonus
      ]_vars

\* both referrers carry code A and both were credited, while the profile
\* the registration created (another code) was not
C7_Witness_BothSharersCredited ==
    /\ users["uid-ref1"].referralCode = users["uid-ref2"].referralCode
    /\ users["uid-ref1"].balance = ReferralBonus
    /\ users["uid-ref2"].balance = 500 + ReferralBonus
    /\ "uid-1" \in DOMAIN users
    /\ users["uid-1"].referralCode # CodeA
    /\ users["uid-1"].balance = 0

----------------------------------------------------------------------------
(* Registration validation: claims *)

C8_BadPassword(form) ==
    \/ form.password # form.confirmPassword
    \/ Len(form.password) < 6

\* C8: in both registration variants a submission whose password differs
\* from its confirmation, or is shorter than 6 characters, is rejected by
\* the handler: no handler gets past its checks with such a form, so no
\* identity and no profile is created for it.
C8_BadPasswordNeverPassesTheChecks ==
    /\ \A page \in RegPages :
           regPc[page].at # "idle" => ~C8_BadPassword(regPc[page].form)
    /\ \A i \in 1..Len(identities) : Len(identities[i].password) >= 6

\* optional '+', a digit 1-9, then 1 to 14 further digits
C9_MatchesPattern(s) ==
    \E k \in {0, 1} :
        /\ k = 1 => (Len(s) >= 1 /\ s[1] = "+")
        /\ Len(s) - k >= 2
        /\ Len(s) - k <= 15
        /\ s[k + 1] \in {"1", "2", "3", "4", "5", "6", "7", "8", "9"}
        /\ \A i \in (k + 2)..Len(s) : IsDigit(s[i])

\* C9: every profile a registration handler has persisted stores a phone
\* value that matches the pattern.
C9_PersistedPhonesMatchThePattern ==
    \A uid \in DOMAIN users : C9_MatchesPattern(users[uid].phone)

----------------------------------------------------------------------------
(* Login page: handleEmailLogin, the redirect effect and the AuthContext *)

\* most clicks on Login
MaxLogins == 2

\* the accounts of the authentication service: one has followed the
\* verification link, the other has not
Vera == [uid |-> "uid-vera", email |-> Email(<<"v">>, "example.com"),
         password |-> Secret, emailVerified |-> TRUE]
Uma == [uid |-> "uid-uma", email |-> Email(<<"u">>, "example.com"),
        password |-> Secret, emailVerified |-> FALSE]

LoginForm(email, password, country) ==
    [email |-> email, password |-> password, country |-> country]

\* what a visitor submits: either account or an unknown address, the right
\* or a wrong password, with or without a country
LoginForms ==
    {LoginForm(email, password, country) :
        email \in {Vera.email, Uma.email, Email(<<"x">>, "example.com")},
        password \in {Secret, Other},
        country \in {"", "NG"}}

\* the accounts whose e-mail address and password are the submitted ones
accountsFor(form) ==
    {i \in 1..Len(identities) :
        identities[i].email = form.email /\ identities[i].password = form.password}

SessionOf(account) == [uid |-> account.uid, email |-> account.email]

LoginIdle == [at |-> "idle"]

\* the visitor fills the form in and submits it
LoginSubmit(form) ==
    /\ loginLocation = "/auth/login"
    /\ loginPc.at = "idle"
    /\ loginRuns < MaxLogins
    /\ loginRuns' = loginRuns + 1
    /\ IF form.country = ""
       THEN /\ loginToasts' = Append(loginToasts, RegToast("error", "Please select your country"))
            /\ UNCHANGED loginPc
       ELSE /\ loginPc' = [at |-> "signIn", form |-> form]
            /\ UNCHANGED loginToasts
    /\ UNCHANGED <<outsideLogin, identities, user, session, loginLocation>>

\* signInWithEmailAndPassword resolves: the service has signed the account
\* in; the handler then looks at emailVerified
SignInResolve ==
    /\ loginPc.at = "signIn"
    /\ \E i \in accountsFor(loginPc.form) :
           /\ session' = SessionOf(identities[i])
           /\ loginToasts' = Append(loginToasts,
                  IF ~identities[i].emailVerified
                  THEN RegToast("error", "Please verify your email before logging in.")
                  ELSE RegToast("success", "Login successful!"))
    /\ loginPc' = LoginIdle
    /\ UNCHANGED <<outsideLogin, identities, user, loginLocation, loginRuns>>

\* signInWithEmailAndPassword rejects: unknown address or wrong password,
\* or the service cannot be reached
SignInReject ==
    /\ loginPc.at = "signIn"
    /\ loginToasts' = Append(loginToasts,
           IF accountsFor(loginPc.form) = {}
           THEN RegToast("error", "Invalid email or password.")
           ELSE RegToast("error", "Login failed"))
    /\ loginPc' = LoginIdle
    /\ UNCHANGED <<outsideLogin, identities, user, session, loginLocation, loginRuns>>

\* the accounts of the federated providers: one registered here before and
\* has a profile, the other never did
Gina == [uid |-> "uid-gina", email |-> Email(<<"g">>, "gmail.com"),
         password |-> <<NULL>>, emailVerified |-> TRUE]
Greg == [uid |-> "uid-greg", email |-> Email(<<"r">>, "icloud.com"),
         password |-> <<NULL>>, emailVerified |-> TRUE]

FederatedAccounts == {Gina, Greg}

\* the profile of an account that registered through a provider
OAuthProfileDoc(account) ==
    [name |-> <<>>, email |-> account.email, phone |-> <<>>, country |-> "",
     balance |-> 0, referralCode |-> CodeN, referrerCode |-> <<NULL>>,
     authMethod |-> ""]

\* where('email', '==', loggedUser.email): the ids of the query snapshot
profilesWithEmail(email) == {p \in DOMAIN users : users[p].email = email}

\* click on 'Login with Google' or 'Login with Apple': setLoading(true) and
\* the provider's popup opens
OAuthClick ==
    /\ loginLocation = "/auth/login"
    /\ loginPc.at = "idle"
    /\ loginRuns < MaxLogins
    /\ loginRuns' = loginRuns + 1
    /\ loginPc' = [at |-> "popup"]
    /\ UNCHANGED <<outsideLogin, identities, user, session, loginToasts, loginLocation>>

\* signInWithPopup resolves: the service holds an identity for the account
\* (a new one at its first sign-in) and has signed it in; the handler asks
\* the store for the profiles with the account's address
PopupResolve(account) ==
    /\ loginPc.at = "popup"
    /\ identities' =
           IF \E i \in 1..Len(identities) : identities[i].uid = account.uid
           THEN identities ELSE Append(identities, account)
    /\ session' = SessionOf(account)
    /\ loginPc' = [at |-> "oauthQuery", account |-> account]
    /\ UNCHANGED <<outsideLogin, user, loginToasts, loginLocation, loginRuns>>

\* signInWithPopup rejects: the visitor closed the popup
PopupReject ==
    /\ loginPc.at = "popup"
    /\ loginToasts' = Append(loginToasts,
           RegToast("error", "Login cancelled. You closed the popup."))
    /\ loginPc' = LoginIdle
    /\ UNCHANGED <<outsideLogin, identities, user, session, loginLocation, loginRuns>>

\* getDocs resolves: without a profile the register-first error, with one
\* the success notification; finally setLoading(false)
OAuthQueryResolve ==
    /\ loginPc.at = "oauthQuery"
    /\ loginToasts' = Append(loginToasts,
           IF profilesWithEmail(loginPc.account.email) = {}
           THEN RegToast("error", "User does not exist. Please register first.")
           ELSE RegToast("success", "Login successful!"))
    /\ loginPc' = LoginIdle
    /\ UNCHANGED <<outsideLogin, identities, user, session, loginLocation, loginRuns>>

\* getDocs rejects
OAuthQueryReject ==
    /\ loginPc.at = "oauthQuery"
    /\ loginToasts' = Append(loginToasts, RegToast("error", "Login failed"))
    /\ loginPc' = LoginIdle
    /\ UNCHANGED <<outsideLogin, identities, user, session, loginLocation, loginRuns>>

\* AuthContext: the current user follows the session of the service
AuthStateChanged ==
    /\ user # session
    /\ user' = session
    /\ UNCHANGED <<outsideLogin, identities, session, loginPc, loginToasts, loginLocation, loginRuns>>

\* useEffect of Login: if (user) navigate('/dashboard')
LoginRedirect ==
    /\ loginLocation = "/auth/login"
    /\ user # NoUser
    /\ loginLocation' = "/dashboard"
    /\ UNCHANGED <<outsideLogin, identities, user, session, loginPc, loginToasts, loginRuns>>

LoginInit ==
    /\ user = NoUser
    /\ PayUnused
    /\ WalletUnused
    /\ ViewsUnused
    /\ users = (Gina.uid :> OAuthProfileDoc(Gina))
    /\ identities = <<Vera, Uma, Gina>>
    /\ credits = {} /\ creditLog = <<>> /\ regPc = <<>> /\ regToast = <<>>
    /\ regLocation = <<>> /\ regRuns = <<>>
    /\ session = NoUser
    /\ loginPc = LoginIdle
    /\ loginToasts = <<>>
    /\ loginLocation = "/auth/login"
    /\ loginRuns = 0

LoginNext ==
    \/ \E form \in LoginForms : LoginSubmit(form)
    \/ SignInResolve
    \/ SignInReject
    \/ OAuthClick
    \/ \E account \in FederatedAccounts : PopupResolve(account)
    \/ PopupReject
    \/ OAuthQueryResolve
    \/ OAuthQueryReject
    \/ AuthStateChanged
    \/ LoginRedirect

SpecLogin == LoginInit /\ [][LoginNext]_vars

----------------------------------------------------------------------------
(* Login page: claims *)

C10_Unverified(uid) ==
    \E i \in 1..Len(identities) :
        identities[i].uid = uid /\ ~identities[i].emailVerified

\* C10: an account whose e-mail address is not verified is rejected by the
\* e-mail login: once it has signed in, the page has shown the verification
\* error and no success notification, and the browser is never on the
\* dashboard with that account as the authenticated user.
C10_UnverifiedAccountNeverReachesDashboard ==
    C10_Unverified(session.uid)
    => /\ loginToasts # <<>>
       /\ loginToasts[Len(loginToasts)].kind = "error"
       /\ ~(loginLocation = "/dashboard" /\ user = session)

C11_RegisterFirst == RegToast("error", "User does not exist. Please register first.")

C11_RegisterFirstShown ==
    \E i \in 1..Len(loginToasts) : loginToasts[i] = C11_RegisterFirst

\* C11: a federated account without a profile of its e-mail address is
\* rejected by the OAuth login: once the register-first message has been
\* shown for it, no profile has been created and the browser is never on
\* the dashboard with that account as the authenticated user.
C11_OAuthWithoutProfileIsNotAdmitted ==
    (C11_RegisterFirstShown /\ session = SessionOf(Greg))
    => /\ DOMAIN users = {Gina.uid}
       /\ ~(loginLocation = "/dashboard" /\ user = session)

----------------------------------------------------------------------------
(* Transactions page: the live feed, the filter and the list shown *)

\* the two variants of the TransactionsFirebase component, named after the
\* field their query compares
TxVariants == {"byUserId", "byEmail"}

TxTypes == {"deposit", "withdrawal", "crypto"}

TxFilters == {"all"} \cup TxTypes

\* most transaction records in the store
MaxTxDocs == 2

\* a Firestore Timestamp, or the absence of one
Timestamp(seconds, nanoseconds) ==
    [present |-> TRUE, seconds |-> seconds, nanoseconds |-> nanoseconds]

NoTimestamp == [present |-> FALSE, seconds |-> 0, nanoseconds |-> 0]

\* createdAt?.seconds || 0
secondsOrZero(doc) == IF doc.createdAt.present THEN doc.createdAt.seconds ELSE 0

\* txs.sort((a, b) => (b.createdAt?.seconds || 0) - (a.createdAt?.seconds || 0)):
\* Array.prototype.sort is stable
RECURSIVE sortNewestFirst(_)
sortNewestFirst(docs) ==
    IF docs = <<>> THEN <<>>
    ELSE LET last == docs[Len(docs)]
             init == sortNewestFirst(SubSeq(docs, 1, Len(docs) - 1))
             keep == Cardinality({i \in 1..Len(init) :
                         secondsOrZero(init[i]) >= secondsOrZero(last)})
         IN  SubSeq(init, 1, keep) \o <<last>> \o SubSeq(init, keep + 1, Len(init))

\* filter === 'all' ? txs : txs.filter((tx) => tx.type === filter)
applyFilter(txs, filter) ==
    IF filter = "all" THEN txs ELSE SelectSeq(txs, LAMBDA tx : tx.type = filter)

\* the latest second a stored record was created in
lastSecond ==
    IF transactions = <<>> THEN 1 ELSE transactions[Len(transactions)].createdAt.seconds

\* a record of the signed-in user as the Wallet page and the payment modal
\* write them
TxRecord(id, type, createdAt) ==
    [id |-> id, userId |-> Alice.uid, userEmail |-> Alice.email, type |-> type,
     amount |-> IF type = "deposit" THEN 100000 ELSE 500,
     status |-> IF type = "deposit" THEN "success" ELSE "pending",
     note |-> IF type = "deposit" THEN <<"C", "a", "r", "d">> ELSE <<>>,
     createdAt |-> createdAt]

\* where('userId', '==', user.uid) / where('userEmail', '==', user.email)
txQuery(variant) ==
    SelectSeq(transactions,
              LAMBDA tx : IF variant = "byUserId" THEN tx.userId = user.uid
                          ELSE tx.userEmail = user.email)

\* the orders in which the store can hand the n documents of a snapshot over
Orders(n) == {f \in [1..n -> 1..n] : \A i, j \in 1..n : f[i] = f[j] => i = j}

NoSubscription == [state |-> "none", filter |-> "all", seen |-> 0,
                   delivered |-> FALSE, snapshot |-> <<>>]

\* another page of the application stores a transaction of the user, in the
\* same second as the one before or in the next
TxWritten(type, later) ==
    /\ Len(transactions) < MaxTxDocs
    /\ transactions' = Append(transactions,
           TxRecord(NewId("transactions", transactions), type,
                    Timestamp(lastSecond + later, Len(transactions) + 1)))
    /\ UNCHANGED <<outsideTransactions, txVars>>

\* the callback of onSnapshot: map, sort, (filter,) setTransactions,
\* setLoading(false); in the byUserId variant the filter effect follows
TxSnapshotArrives ==
    /\ txSub.state \in {"pending", "active"}
    /\ txSub.state = "pending" \/ txSub.seen # Len(transactions)
    /\ \E order \in Orders(Len(txQuery(txPage.variant))) :
       LET docs == txQuery(txPage.variant)
           fetched == [i \in 1..Len(docs) |-> docs[order[i]]]
           txs == sortNewestFirst(fetched)
       IN  /\ txPage' =
                  IF txPage.variant = "byUserId"
                  THEN [txPage EXCEPT !.transactions = txs,
                                      !.filteredTxs = applyFilter(txs, txPage.filter),
                                      !.loading = FALSE]
                  ELSE [txPage EXCEPT !.transactions = applyFilter(txs, txSub.filter),
                                      !.loading = FALSE]
           /\ txSub' = [txSub EXCEPT !.state = "active", !.seen = Len(transactions),
                                     !.delivered = TRUE, !.snapshot = fetched]
    /\ UNCHANGED <<outsideTransactions, transactions, txFiles>>

\* the error callback of onSnapshot: the listener is over
TxListenerError ==
    /\ txSub.state \in {"pending", "active"}
    /\ txPage' = [txPage EXCEPT
           !.toast = IF txPage.variant = "byUserId"
                     THEN RegToast("error", "Failed to load transactions")
                     ELSE RegToast("error", "Failed to fetch transactions"),
           !.loading = FALSE]
    /\ txSub' = [txSub EXCEPT !.state = "failed"]
    /\ UNCHANGED <<outsideTransactions, transactions, txFiles>>

\* the visitor picks another filter.  byUserId: the filter effect refilters
\* the list held.  byEmail: filter is a dependency of the subscription
\* effect, which unsubscribes, calls setLoading(true) and subscribes again
SetFilter(filter) ==
    /\ filter # txPage.filter
    /\ IF txPage.variant = "byUserId"
       THEN /\ ~txPage.loading
            /\ txPage' = [txPage EXCEPT
                   !.filter = filter,
                   !.filteredTxs = applyFilter(txPage.transactions, filter)]
            /\ UNCHANGED txSub
       ELSE /\ txPage' = [txPage EXCEPT !.filter = filter, !.loading = TRUE]
            /\ txSub' = [txSub EXCEPT !.state = "pending", !.filter = filter, !.seen = 0]
    /\ UNCHANGED <<outsideTransactions, transactions, txFiles>>

\* most clicks on Export CSV
MaxExports == 1

\* the locales of the browser: toLocaleString separates date and time by
\* ", " in en-US and by " " in sv-SE
Locales == {"en-US", "sv-SE"}

\* new Date(seconds * 1000).toLocaleString()
toLocaleString(seconds, locale) ==
    IF locale = "en-US"
    THEN <<"1", "/", "1", "/", "1", "9", "7", "0", ",", " ", "0", ":", "0", ":">>
             \o <<DigitChars[(seconds % 10) + 1]>>
    ELSE <<"1", "9", "7", "0", "-", "0", "1", "-", "0", "1", " ", "0", ":", "0", ":">>
             \o <<DigitChars[(seconds % 10) + 1]>>

\* String(n) of a non-negative integer
RECURSIVE digitsOf(_)
digitsOf(n) ==
    IF n < 10 THEN <<DigitChars[n + 1]>>
    ELSE digitsOf(n \div 10) \o <<DigitChars[(n % 10) + 1]>>

\* .replace(/\B(?=(\d{3})+(?!\d))/g, ',') on a string of digits
RECURSIVE thousands(_)
thousands(ds) ==
    IF Len(ds) <= 3 THEN ds
    ELSE thousands(SubSeq(ds, 1, Len(ds) - 3)) \o <<",">> \o LastN(ds, 3)

\* formatUSD of Transactions.tsx: cents -> $X,XXX.XX
formatUSD(cents) ==
    <<"$">> \o thousands(digitsOf(cents \div 100)) \o <<".">>
        \o <<DigitChars[((cents % 100) \div 10) + 1], DigitChars[(cents % 10) + 1]>>

\* the characters of the type and status values
textOf(word) ==
    CASE word = "deposit" -> <<"d", "e", "p", "o", "s", "i", "t">>
      [] word = "withdrawal" -> <<"w", "i", "t", "h", "d", "r", "a", "w", "a", "l">>
      [] word = "crypto" -> <<"c", "r", "y", "p", "t", "o">>
      [] word = "success" -> <<"s", "u", "c", "c", "e", "s", "s">>
      [] word = "pending" -> <<"p", "e", "n", "d", "i", "n", "g">>

toUpperCase(c) ==
    CASE c = "d" -> "D" [] c = "w" -> "W" [] c = "c" -> "C" [] OTHER -> c

\* tx.type.charAt(0).toUpperCase() + tx.type.slice(1)
capitalized(text) == <<toUpperCase(text[1])>> \o Tail(text)

\* the five cells of a record, as each variant of exportToCSV computes them
csvCells(variant, tx, locale) ==
    IF variant = "byUserId"
    THEN <<IF tx.createdAt.present THEN toLocaleString(tx.createdAt.seconds, locale)
           ELSE <<"N", "/", "A">>,
           capitalized(textOf(tx.type)),
           formatUSD(tx.amount),
           textOf(tx.status),
           tx.note>>
    ELSE <<IF tx.createdAt.present THEN toLocaleString(tx.createdAt.seconds, locale)
           ELSE <<"I", "n", "v", "a", "l", "i", "d", " ", "D", "a", "t", "e">>,
           textOf(tx.type),
           digitsOf(tx.amount),
           textOf(tx.status),
           tx.note>>

\* Array.prototype.join
RECURSIVE join(_, _)
join(parts, sep) ==
    IF parts = <<>> THEN <<>>
    ELSE IF Len(parts) = 1 THEN parts[1]
    ELSE parts[1] \o <<sep>> \o join(Tail(parts), sep)

csvHeaders == <<<<"D", "a", "t", "e">>, <<"T", "y", "p", "e">>,
                <<"A", "m", "o", "u", "n", "t">>, <<"S", "t", "a", "t", "u", "s">>,
                <<"N", "o", "t", "e">>>>

\* [headers, ...rows].map((row) => row.join(',')).join('\n')
csvContent(variant, txs, locale) ==
    join(<<join(csvHeaders, ",")>> \o
             [i \in 1..Len(txs) |-> join(csvCells(variant, txs[i], locale), ",")],
         "\n")

\* the list exportToCSV reads: filteredTxs, or the transactions of part_003
exportedList == IF txPage.variant = "byUserId" THEN txPage.filteredTxs ELSE txPage.transactions

\* exportToCSV, entered however (its button is disabled while the list is
\* empty): the notice for an empty list, otherwise one file and the
\* success notification
ExportToCSV(locale) ==
    /\ ~txPage.loading \/ txPage.variant = "byEmail"
    /\ Len(txFiles) < MaxExports
    /\ IF exportedList = <<>>
       THEN /\ txPage' = [txPage EXCEPT !.toast = RegToast("error", "No transactions to export")]
            /\ UNCHANGED txFiles
       ELSE /\ txFiles' = Append(txFiles, csvContent(txPage.variant, exportedList, locale))
            /\ txPage' = [txPage EXCEPT !.toast =
                   IF txPage.variant = "byUserId"
                   THEN RegToast("success", "Exported successfully")
                   ELSE RegToast("success", "Transactions exported successfully")]
    /\ UNCHANGED <<outsideTransactions, transactions, txSub>>

TransactionsInit ==
    /\ user = Alice
    /\ transactions = <<>>
    /\ investments = <<>>
    /\ isOpen = FALSE /\ cardForm = EmptyCardForm /\ payLoading = FALSE
    /\ payPc = PayIdle /\ payToasts = <<>> /\ payLocation = "" /\ cardRuns = <<>>
    /\ users = <<>>
    /\ WalletUnused
    /\ RegisterUnused
    /\ LoginUnused
    /\ DashboardUnused
    /\ CryptoUnused
    /\ SubscriptionsUnused
    /\ FormsUnused
    /\ \E variant \in TxVariants :
           txPage = [variant |-> variant, transactions |-> <<>>, filteredTxs |-> <<>>,
                     loading |-> TRUE, filter |-> "all", toast |-> RegToast("", "")]
    /\ txSub = [NoSubscription EXCEPT !.state = "pending"]
    /\ txFiles = <<>>

TransactionsNext ==
    \/ \E type \in TxTypes : \E later \in {0, 1} : TxWritten(type, later)
    \/ TxSnapshotArrives
    \/ TxListenerError
    \/ \E filter \in TxFilters : SetFilter(filter)
    \/ \E locale \in Locales : ExportToCSV(locale)

SpecTransactions == TransactionsInit /\ [][TransactionsNext]_vars

----------------------------------------------------------------------------
(* Transactions page: claims *)

\* the list the page shows once it is not loading
C12_Displayed ==
    IF txPage.variant = "byUserId" THEN txPage.filteredTxs ELSE txPage.transactions

C12_CreatedAfter(a, b) ==
    \/ a.createdAt.seconds > b.createdAt.seconds
    \/ /\ a.createdAt.seconds = b.createdAt.seconds
       /\ a.createdAt.nanoseconds > b.createdAt.nanoseconds

\* C12: whenever the page shows its list (a snapshot has arrived and it is
\* not loading), for every filter value the list holds exactly the records
\* of the latest snapshot whose type is the filter (all of them for 'all'),
\* each once, and no record stands before one that was created after it.
C12_ListIsFilteredSnapshotNewestFirst ==
    (txSub.delivered /\ ~txPage.loading)
    => /\ {C12_Displayed[i].id : i \in 1..Len(C12_Displayed)} =
              {txSub.snapshot[i].id : i \in
                   {j \in 1..Len(txSub.snapshot) :
                        txPage.filter = "all" \/ txSub.snapshot[j].type = txPage.filter}}
       /\ \A i, j \in 1..Len(C12_Displayed) :
              i < j => /\ C12_Displayed[i].id # C12_Displayed[j].id
                       /\ ~C12_CreatedAfter(C12_Displayed[j], C12_Displayed[i])

\* String.prototype.split, as a reader of the file separates lines and cells
RECURSIVE C13_Split(_, _)
C13_Split(s, sep) ==
    IF \A i \in 1..Len(s) : s[i] # sep THEN <<s>>
    ELSE LET k == CHOOSE i \in 1..Len(s) :
                      s[i] = sep /\ \A j \in 1..(i - 1) : s[j] # sep
         IN  <<SubSeq(s, 1, k - 1)>> \o C13_Split(SubSeq(s, k + 1, Len(s)), sep)

C13_Notice == RegToast("error", "No transactions to export")

\* C13: exportToCSV on an empty filtered list shows 'No transactions to
\* export' and produces no file; on a non-empty list it produces one file
\* whose first line is the header Date,Type,Amount,Status,Note and whose
\* further lines are the listed transactions in the order shown, each line
\* separating at its commas into exactly the five cells date, type, amount,
\* status and note of its transaction.
C13_ExportIsNoticeOrOneFileOfFiveColumns ==
    [][/\ (txPage'.toast = C13_Notice /\ txPage.toast # C13_Notice)
           => (exportedList = <<>> /\ txFiles' = txFiles)
       /\ txFiles' # txFiles
           => /\ exportedList # <<>>
              /\ Len(txFiles') = Len(txFiles) + 1
              /\ LET lines == C13_Split(txFiles'[Len(txFiles')], "\n")
                 IN  /\ Len(lines) = Len(exportedList) + 1
                     /\ C13_Split(lines[1], ",") = csvHeaders
                     /\ \A i \in 1..Len(exportedList) :
                            \E locale \in Locales :
                                C13_Split(lines[i + 1], ",") =
                                    csvCells(txPage.variant, exportedList[i], locale)
      ]_vars

----------------------------------------------------------------------------
(* Dashboard page: the loader of its effect *)

\* the three variants of the Dashboard component: Dashboard.tsx looks the
\* profile and the investments up by e-mail address, the first component of
\* part_001 reads the profile by id and offers to re-create it, the second
\* queries it by id
DashVariants == {"byEmail", "recreate", "byUid"}

\* most investment records in the store
MaxInvDocs == 2

\* the latest second an investment was created in
lastInvSecond ==
    IF investments = <<>> THEN 1
    ELSE LET last == investments[Len(investments)]
         IN  IF last.createdAt.present THEN last.createdAt.seconds ELSE 1

\* an investment of the signed-in user that every variant's query returns
InvRecord(id, createdAt) ==
    [id |-> id, userId |-> Alice.uid, userEmail |-> Alice.email,
     planId |-> plan.id, status |-> "active", createdAt |-> createdAt]

\* where('userEmail', '==', user.email) / where('userId', '==', user.uid); a
\* document without the field matches no value
invQuery(variant) ==
    SelectSeq(investments,
              LAMBDA inv : IF variant = "byEmail" THEN inv.userEmail = user.email
                           ELSE "userId" \in DOMAIN inv /\ inv.userId = user.uid)

\* the profile of the signed-in user; email is "" in a profile the phone
\* registration wrote, which has no such field
AliceProfile(email) ==
    [name |-> Ann, email |-> email, phone |-> Plus12, country |-> "NG",
     balance |-> 0, referralCode |-> CodeN, referrerCode |-> <<NULL>>,
     authMethod |-> "phone"]

DashIdle == [at |-> "idle"]

\* useState<UserData | null>(null)
NoUserData == [loaded |-> FALSE, balance |-> 0]

\* the state of a freshly mounted Dashboard
DashMounted(variant) ==
    [variant |-> variant, userData |-> NoUserData, investments |-> <<>>, loading |-> TRUE,
     profileMissing |-> FALSE, toast |-> RegToast("", "")]

\* the payment modal stores an investment of the user: in the same second
\* as the one before (later = 0) or in the next, or a record is stored
\* without a createdAt field (stamped = FALSE)
InvestmentWritten(later, stamped) ==
    /\ Len(investments) < MaxInvDocs
    /\ investments' = Append(investments,
           InvRecord(NewId("investments", investments),
                     IF stamped
                     THEN Timestamp(lastInvSecond + later, Len(investments) + 1)
                     ELSE NoTimestamp))
    /\ UNCHANGED <<outsideDashboard, users, dashVars>>

\* the page is opened (again): the effect starts the loader
OpenDashboard(variant) ==
    /\ dashPc.at \in {"closed", "idle"}
    /\ dashPage' = DashMounted(variant)
    /\ dashPc' = [at |-> "profile"]
    /\ UNCHANGED <<outsideDashboard, users, investments>>

\* catch and finally of loadDashboardData; the recreate variant has neither,
\* its setLoading(false) is never reached
DashLoadFailed ==
    /\ dashPage' =
           IF dashPage.variant = "recreate" THEN dashPage
           ELSE [dashPage EXCEPT !.toast = RegToast("error", "Failed to load dashboard"),
                                 !.loading = FALSE]
    /\ dashPc' = DashIdle
    /\ UNCHANGED <<outsideDashboard, users, investments>>

\* the profile read resolves
DashProfileResolve ==
    /\ dashPc.at = "profile"
    /\ LET found ==
               IF dashPage.variant = "byEmail"
               THEN {p \in DOMAIN users : users[p].email = user.email}
               ELSE {p \in DOMAIN users : p = user.uid}
       IN  IF found # {}
           THEN /\ dashPage' = [dashPage EXCEPT
                       !.userData = [loaded |-> TRUE,
                                     balance |-> users[CHOOSE p \in found : TRUE].balance],
                       !.profileMissing = FALSE]
                /\ dashPc' = [at |-> "wallet"]
           ELSE IF dashPage.variant = "byEmail"
           THEN /\ dashPc' = [at |-> "wallet"]
                /\ UNCHANGED dashPage
           ELSE IF dashPage.variant = "recreate"
           THEN /\ dashPage' = [dashPage EXCEPT !.profileMissing = TRUE]
                /\ dashPc' = [at |-> "wallet"]
           ELSE /\ dashPage' = [dashPage EXCEPT
                       !.toast = RegToast("error", "User profile not found"),
                       !.loading = FALSE]
                /\ dashPc' = DashIdle
    /\ UNCHANGED <<outsideDashboard, users, investments>>

DashProfileReject ==
    /\ dashPc.at = "profile"
    /\ DashLoadFailed

\* the wallet query resolves; no page of the model reads the wallet
DashWalletResolve ==
    /\ dashPc.at = "wallet"
    /\ dashPc' = [at |-> "investments"]
    /\ UNCHANGED <<outsideDashboard, users, investments, dashPage>>

DashWalletReject ==
    /\ dashPc.at = "wallet"
    /\ DashLoadFailed

\* the investments query resolves, its documents in some order: map, sort,
\* setInvestments, setLoading(false)
DashInvestmentsResolve ==
    /\ dashPc.at = "investments"
    /\ \E order \in Orders(Len(invQuery(dashPage.variant))) :
       LET docs == invQuery(dashPage.variant)
           invs == [i \in 1..Len(docs) |-> docs[order[i]]]
       IN  dashPage' = [dashPage EXCEPT !.investments = sortNewestFirst(invs),
                                        !.loading = FALSE]
    /\ dashPc' = DashIdle
    /\ UNCHANGED <<outsideDashboard, users, investments>>

DashInvestmentsReject ==
    /\ dashPc.at = "investments"
    /\ DashLoadFailed

DashboardInit ==
    /\ user = Alice
    /\ transactions = <<>>
    /\ investments = <<>>
    /\ isOpen = FALSE /\ cardForm = EmptyCardForm /\ payLoading = FALSE
    /\ payPc = PayIdle /\ payToasts = <<>> /\ payLocation = "" /\ cardRuns = <<>>
    /\ users \in {<<>>, (Alice.uid :> AliceProfile(Alice.email)),
                 (Alice.uid :> AliceProfile(""))}
    /\ WalletUnused
    /\ RegisterUnused
    /\ LoginUnused
    /\ TransactionsUnused
    /\ CryptoUnused
    /\ SubscriptionsUnused
    /\ FormsUnused
    /\ dashPage = DashMounted("byEmail")
    /\ dashPc = [at |-> "closed"]

DashboardNext ==
    \/ \E later \in {0, 1} : \E stamped \in BOOLEAN : InvestmentWritten(later, stamped)
    \/ \E variant \in DashVariants : OpenDashboard(variant)
    \/ DashProfileResolve
    \/ DashProfileReject
    \/ DashWalletResolve
    \/ DashWalletReject
    \/ DashInvestmentsResolve
    \/ DashInvestmentsReject

SpecDashboard == DashboardInit /\ [][DashboardNext]_vars

----------------------------------------------------------------------------
(* Dashboard page: claims *)

\* the creation time of a record, 0 when it has no timestamp
C14_Time(inv) ==
    IF inv.createdAt.present
    THEN <<inv.createdAt.seconds, inv.createdAt.nanoseconds>> ELSE <<0, 0>>

C14_After(a, b) ==
    \/ C14_Time(a)[1] > C14_Time(b)[1]
    \/ C14_Time(a)[1] = C14_Time(b)[1] /\ C14_Time(a)[2] > C14_Time(b)[2]

\* C14: in every Dashboard variant the investment list held in state is
\* sorted by creation time, newest first, whatever order the store returned
\* the documents in: no record stands before one created after it, a record
\* without a timestamp counting as created at time 0.
C14_InvestmentsNewestFirst ==
    \A i, j \in 1..Len(dashPage.investments) :
        i < j => ~C14_After(dashPage.investments[j], dashPage.investments[i])

\* ---------------------------------------------------------------------
\* C15
\* ---------------------------------------------------------------------

C15_Alphabet ==
    {"A", "B", "C", "D", "E", "F", "G", "H", "I", "J", "K", "L", "M",
     "N", "O", "P", "Q", "R", "S", "T", "U", "V", "W", "X", "Y", "Z",
     "0", "1", "2", "3", "4", "5", "6", "7", "8", "9"}

\* the positions of the identities that carry the id
C15_IdentitiesOf(ids, uid) == {i \in 1..Len(ids) : ids[i].uid = uid}

\* the profile a registration leaves: its referrer code is the code the
\* visitor supplied, null when none was, and its own code has exactly
\* eight characters of A-Z and 0-9
C15_AsClaimed(profile, form) ==
    /\ profile.referrerCode =
           (IF form.referralCode = <<>> THEN <<NULL>> ELSE form.referralCode)
    /\ Len(profile.referralCode) = 8
    /\ \A i \in 1..Len(profile.referralCode) : profile.referralCode[i] \in C15_Alphabet

\* the handler of the page finishes with success in this step
C15_Succeeds(page) ==
    /\ regPc[page].at \in {"setDoc", "query"}
    /\ regPc'[page].at = "idle"
    /\ regRuns'[regPc[page].run].outcome = "success"

\* C15: a successful registration creates exactly one identity and then
\* exactly one profile, stored under the id of that identity; the profile is
\* created with balance 0, with the referrer code the visitor supplied (null
\* when none was supplied) and with a generated referral code of exactly 8
\* characters drawn from A-Z and 0-9.  Step by step: a run creates its
\* identity in one step, before any profile of that id exists; the only
\* profile a step adds is the one of a run waiting on setDoc, under the id
\* of the run's identity and with balance 0; and when a run succeeds, one
\* identity and one profile carry its id and the profile is as claimed.
C15_SuccessCreatesOneIdentityThenOneProfile ==
    [][/\ Len(identities') \in {Len(identities), Len(identities) + 1}
       /\ \A page \in RegPages :
              regPc[page].at = "createUser" /\ regPc'[page].at \in {"verify", "setDoc"}
              => /\ Len(identities') = Len(identities) + 1
                 /\ C15_IdentitiesOf(identities', regPc'[page].uid) = {Len(identities')}
                 /\ regPc'[page].uid \notin DOMAIN users'
       /\ DOMAIN users \subseteq DOMAIN users'
       /\ \A uid \in DOMAIN users' \ DOMAIN users :
              /\ DOMAIN users' = DOMAIN users \cup {uid}
              /\ \E page \in RegPages : regPc[page].at = "setDoc" /\ regPc[page].uid = uid
              /\ Cardinality(C15_IdentitiesOf(identities, uid)) = 1
              /\ users'[uid].balance = 0
       /\ \A page \in RegPages :
              C15_Succeeds(page)
              => /\ Cardinality(C15_IdentitiesOf(identities', regPc[page].uid)) = 1
                 /\ regPc[page].uid \in DOMAIN users'
                 /\ C15_AsClaimed(users'[regPc[page].uid], regPc[page].form)
      ]_vars

\* both pages have registered with success, one visitor with a referrer's
\* code and one without: two identities, two profiles under their ids
C15_Witness_TwoSuccessfulRegistrations ==
    /\ Len(regRuns) = 2
    /\ \A r \in 1..2 : regRuns[r].outcome = "success"
    /\ {regRuns[r].referralCode : r \in 1..2} = {<<>>, CodeA}
    /\ Len(identities) = 2
    /\ DOMAIN users = Referrers \cup {"uid-1", "uid-2"}
    /\ {users[u].referrerCode : u \in {"uid-1", "uid-2"}} = {<<NULL>>, CodeA}
    /\ {users[u].referralCode : u \in {"uid-1", "uid-2"}} = GeneratedCodes

\* ---------------------------------------------------------------------
\* C16
\* ---------------------------------------------------------------------

\* the handler of the page finishes with a failure in this step
C16_Fails(page) ==
    /\ regPc[page].at # "idle"
    /\ regPc'[page].at = "idle"
    /\ regRuns'[regPc[page].run].outcome = "failed"

\* the failure is the rejection of the identity because it exists already
C16_AlreadyExists(page) ==
    /\ regPc[page].at = "createUser"
    /\ EmailTaken(identityEmail(page, regPc[page].form))

\* what is shown for a failure that gets no message of its own: the text of
\* the error, 'Registration failed' when it has none
C16_Generic(err) == IF err.message # "" THEN err.message ELSE "Registration failed"

\* C16: when the identity cannot be created because the account exists
\* already, the page shows an 'already registered' message of its own, not
\* the one any failure gets, and every other failure gets the generic one;
\* in both cases the registration has created no profile and credits no
\* bonus.
C16_AlreadyRegisteredIsSurfacedDistinctly ==
    [][\A page \in RegPages :
           C16_Fails(page)
           => /\ regToast'[page].kind = "error"
              /\ IF C16_AlreadyExists(page)
                 THEN regToast'[page].message \notin
                          {C16_Generic(err) : err \in {EmailInUse, Unavailable}}
                 ELSE regToast'[page].message = C16_Generic(Unavailable)
              /\ regPc[page].uid \notin DOMAIN users'
              /\ credits' = credits
              /\ creditLog' = creditLog
              /\ \A p \in DOMAIN users : users'[p].balance = users[p].balance
      ]_vars

----------------------------------------------------------------------------
(* PaymentModalFake, crypto tab: handleFileChange and handleCryptoSubmit *)

\* clicks on Submit followed in one behaviour
MaxCryptoRuns == 2

\* notifications of handleFileChange followed in one behaviour
MaxCryptoToasts == 1

\* 5 * 1024 * 1024
MaxProofBytes == 5 * 1024 * 1024

\* a File of the file input: name, MIME type, size in bytes and its bytes in
\* base64
File(name, type, size, base64) ==
    [present |-> TRUE, name |-> name, type |-> type, size |-> size, base64 |-> base64]

\* proofFile: null
NoFile == [present |-> FALSE, name |-> "", type |-> <<>>, size |-> 0, base64 |-> <<>>]

ImagePng == <<"i", "m", "a", "g", "e", "/", "p", "n", "g">>
TextPlain == <<"t", "e", "x", "t", "/", "p", "l", "a", "i", "n">>

\* what the user picks in the file dialog: an image exactly at the limit and
\* one a byte above it, a file whose type only contains "image/", one
\* without a type, and nothing at all (the dialog was cancelled)
PickedFiles ==
    {File("limit.png", ImagePng, MaxProofBytes, <<"R", "w">>),
     File("large.png", ImagePng, MaxProofBytes + 1, <<"Q", "Q">>),
     File("notes.txt", TextPlain \o <<";">> \o ImagePng, 1024, <<"Q", "Q">>),
     File("photo.heic", <<>>, 1024, <<"Q", "Q">>),
     NoFile}

\* file.type.startsWith(prefix)
startsWith(s, prefix) ==
    /\ Len(s) >= Len(prefix)
    /\ SubSeq(s, 1, Len(prefix)) = prefix

\* a handleFileChange without the size check
fileRejected_anySize(file) ==
    IF ~startsWith(file.type, <<"i", "m", "a", "g", "e", "/">>) THEN "Only image files allowed"
    ELSE ""

\* the notification of handleFileChange for a file it does not store, "" when
\* it stores the file
fileRejected(file) ==
    IF file.size > MaxProofBytes THEN "File size must be <5MB"
    ELSE IF ~startsWith(file.type, <<"i", "m", "a", "g", "e", "/">>) THEN "Only image files allowed"
    ELSE ""

\* reader.result of readAsDataURL
readAsDataURL(file) ==
    <<"d", "a", "t", "a", ":">> \o file.type \o <<";", "b", "a", "s", "e", "6", "4", ",">> \o file.base64

\* s.split(sep): the pieces between the separators
RECURSIVE split(_, _)
split(s, sep) ==
    IF \A i \in 1..Len(s) : s[i] # sep THEN <<s>>
    ELSE LET at == CHOOSE i \in 1..Len(s) : s[i] = sep /\ \A j \in 1..(i - 1) : s[j] # sep
         IN  <<SubSeq(s, 1, at - 1)>> \o split(SubSeq(s, at + 1, Len(s)), sep)

\* reader.result?.toString().split(',')[1]
base64Data(file) ==
    LET pieces == split(readAsDataURL(file), ",")
    IN  IF Len(pieces) >= 2 THEN pieces[2] ELSE <<NULL>>

TxHashes == {<<>>, <<"0", "x", "a", "b">>}

EmptyCryptoForm ==
    [currency |-> "USDT", amountCrypto |-> <<>>, txHash |-> <<>>, proofFile |-> NoFile,
     note |-> <<>>, confirmTerms |-> FALSE]

\* !cryptoForm.txHash || !cryptoForm.proofFile || !cryptoForm.confirmTerms
cryptoFormRejected(form) ==
    \/ form.txHash = <<>>
    \/ ~form.proofFile.present
    \/ ~form.confirmTerms

\* the transaction document of the crypto path
CryptoTxDoc(id, email, form, run) ==
    [id |-> id, userEmail |-> IF email = NULL THEN "anonymous" ELSE email,
     planId |-> plan.id, amountCrypto |-> orNull(form.amountCrypto),
     currency |-> form.currency, txHash |-> form.txHash,
     proofFile |-> [data |-> base64Data(form.proofFile), name |-> form.proofFile.name,
                    type |-> form.proofFile.type],
     note |-> form.note, type |-> "deposit", method |-> "crypto",
     status |-> "success", by |-> <<"crypto", run>>]

\* the investment document of the crypto path
CryptoInvestmentDoc(id, email, txId, run) ==
    [id |-> id, userEmail |-> IF email = NULL THEN "anonymous" ELSE email,
     planId |-> plan.id, transactionId |-> txId,
     deposit_usd |-> plan.deposit_usd,
     payout_per_drop_usd |-> plan.payout_per_drop_usd,
     drops_count |-> plan.drops_count,
     total_return_usd |-> plan.total_return_usd,
     status |-> "active", by |-> <<"crypto", run>>]

\* what the crypto tab never touches
outsideCrypto ==
    <<user, users, walletVars, regVars, loginVars, txVars, dashVars, cardForm, payPc,
      cardRuns, formData, subVars>>

\* the notification is shown
CryptoToast(message) ==
    /\ Cardinality({i \in 1..Len(payToasts) :
                        payToasts[i] \in {"File size must be <5MB", "Only image files allowed"}})
           < MaxCryptoToasts
    /\ payToasts' = Append(payToasts, message)

\* onChange of the hash input
SetTxHash(hash) ==
    /\ isOpen
    /\ cryptoForm' = [cryptoForm EXCEPT !.txHash = hash]
    /\ UNCHANGED <<outsideCrypto, storeVars, isOpen, payLoading, payToasts, payLocation, cryptoPc>>

\* onCheckedChange of the terms checkbox
SetCryptoTerms(c) ==
    /\ isOpen
    /\ cryptoForm' = [cryptoForm EXCEPT !.confirmTerms = c]
    /\ UNCHANGED <<outsideCrypto, storeVars, isOpen, payLoading, payToasts, payLocation, cryptoPc>>

\* handleFileChange: the file input changes
handleFileChange ==
    /\ isOpen
    /\ \E file \in PickedFiles :
           IF ~file.present
           THEN UNCHANGED <<cryptoForm, payToasts>>
           ELSE IF fileRejected(file) # ""
           THEN /\ CryptoToast(fileRejected(file))
                /\ UNCHANGED cryptoForm
           ELSE /\ cryptoForm' = [cryptoForm EXCEPT !.proofFile = file]
                /\ UNCHANGED payToasts
    /\ UNCHANGED <<outsideCrypto, storeVars, isOpen, payLoading, payLocation, cryptoPc>>

\* handleCryptoSubmit up to the return of readAsDataURL, with its finally:
\* setLoading(true) and setLoading(false) run in the same turn, so loading
\* is false again when the handler returns and the file is still being read.
\* The button is disabled while a required field is missing; the handler
\* has the check of its own that is modelled here.
CryptoSubmit ==
    /\ isOpen
    /\ Len(cryptoPc) < MaxCryptoRuns
    /\ IF cryptoFormRejected(cryptoForm)
       THEN /\ payToasts' = Append(payToasts, "Fill all required fields and confirm terms")
            /\ cryptoPc' = Append(cryptoPc, [at |-> "rejected", form |-> EmptyCryptoForm, txId |-> NULL])
       ELSE /\ cryptoPc' = Append(cryptoPc, [at |-> "reading", form |-> cryptoForm, txId |-> NULL])
            /\ UNCHANGED payToasts
    /\ payLoading' = FALSE
    /\ UNCHANGED <<outsideCrypto, storeVars, isOpen, cryptoForm, payLocation>>

\* reader.onload: the file is read; addDoc(transactions) is issued
FileReaderLoad ==
    \E run \in 1..Len(cryptoPc) :
        /\ cryptoPc[run].at = "reading"
        /\ cryptoPc' = [cryptoPc EXCEPT ![run].at = "tx"]
        /\ UNCHANGED <<outsideCrypto, storeVars, isOpen, payLoading, payToasts, payLocation, cryptoForm>>

\* the read fails: the reader has no onerror, nothing else happens
FileReaderError ==
    \E run \in 1..Len(cryptoPc) :
        /\ cryptoPc[run].at = "reading"
        /\ cryptoPc' = [cryptoPc EXCEPT ![run].at = "lost"]
        /\ UNCHANGED <<outsideCrypto, storeVars, isOpen, payLoading, payToasts, payLocation, cryptoForm>>

\* the transaction write resolves; addDoc(investments) is issued
CryptoTxResolve ==
    \E run \in 1..Len(cryptoPc) :
        /\ cryptoPc[run].at = "tx"
        /\ LET id == NewId("transactions", transactions)
           IN  /\ transactions' = Append(transactions,
                     CryptoTxDoc(id, user.email, cryptoPc[run].form, run))
               /\ cryptoPc' = [cryptoPc EXCEPT ![run].at = "inv", ![run].txId = id]
        /\ UNCHANGED <<outsideCrypto, investments, isOpen, payLoading, payToasts, payLocation, cryptoForm>>

\* a write rejects inside onload: the rejection is not caught by the try of
\* handleCryptoSubmit, which has returned
CryptoWriteReject ==
    \E run \in 1..Len(cryptoPc) :
        /\ cryptoPc[run].at \in {"tx", "inv"}
        /\ cryptoPc' = [cryptoPc EXCEPT ![run].at = "lost"]
        /\ UNCHANGED <<outsideCrypto, storeVars, isOpen, payLoading, payToasts, payLocation, cryptoForm>>

\* the investment write resolves: toast, onClose, the form is reset, navigate
CryptoInvResolve ==
    \E run \in 1..Len(cryptoPc) :
        /\ cryptoPc[run].at = "inv"
        /\ investments' = Append(investments,
               CryptoInvestmentDoc(NewId("investments", investments), user.email,
                                   cryptoPc[run].txId, run))
        /\ payToasts' = Append(payToasts, "Crypto deposit submitted and investment created!")
        /\ isOpen' = FALSE
        /\ cryptoForm' = EmptyCryptoForm
        /\ payLocation' = "/transactions"
        /\ cryptoPc' = [cryptoPc EXCEPT ![run].at = "done"]
        /\ UNCHANGED <<outsideCrypto, transactions, payLoading>>

CryptoInit ==
    /\ user \in {NoUser, Alice}
    /\ transactions = <<>>
    /\ investments = <<>>
    /\ isOpen = TRUE
    /\ cardForm = EmptyCardForm
    /\ payLoading = FALSE
    /\ payPc = PayIdle
    /\ payToasts = <<>>
    /\ payLocation = "/plans"
    /\ cardRuns = <<>>
    /\ users = <<>>
    /\ WalletUnused
    /\ RegisterUnused
    /\ LoginUnused
    /\ TransactionsUnused
    /\ DashboardUnused
    /\ cryptoForm = EmptyCryptoForm
    /\ cryptoPc = <<>>
    /\ FormsUnused
    /\ SubscriptionsUnused

CryptoNext ==
    \/ \E hash \in TxHashes : SetTxHash(hash)
    \/ \E c \in BOOLEAN : SetCryptoTerms(c)
    \/ handleFileChange
    \/ OpenModal
    \/ CryptoSubmit
    \/ FileReaderLoad
    \/ FileReaderError
    \/ CryptoTxResolve
    \/ CryptoWriteReject
    \/ CryptoInvResolve

SpecCrypto == CryptoInit /\ [][CryptoNext]_vars

\* ---------------------------------------------------------------------
\* C17
\* ---------------------------------------------------------------------

\* a proof file within the limits: at most 5MB, of an image MIME type
C17_Acceptable(file) ==
    /\ file.present
    /\ file.size <= 5 * 1024 * 1024
    /\ Len(file.type) > 6
    /\ SubSeq(file.type, 1, 6) = <<"i", "m", "a", "g", "e", "/">>

\* the form lacks the hash, the proof or the acceptance of the terms
C17_Incomplete(form) ==
    form.txHash = <<>> \/ ~form.proofFile.present \/ ~form.confirmTerms

\* the records the run of the crypto path has written
C17_WrittenBy(run) ==
    {i \in 1..Len(transactions) : transactions[i].by = <<"crypto", run>>}

C17_Stored ==
    /\ cryptoForm.proofFile.present => C17_Acceptable(cryptoForm.proofFile)
    /\ \A i \in 1..Len(transactions) :
           transactions[i].method = "crypto"
           => LET run == cryptoPc[transactions[i].by[2]]
              IN  /\ run.at \in {"inv", "done", "lost"}
                  /\ ~C17_Incomplete(run.form)
                  /\ C17_Acceptable(run.form.proofFile)
                  /\ transactions[i].txHash = run.form.txHash
                  /\ transactions[i].proofFile.name = run.form.proofFile.name
                  /\ transactions[i].proofFile.type = run.form.proofFile.type
                  /\ transactions[i].proofFile.data = run.form.proofFile.base64
    /\ \A run \in 1..Len(cryptoPc) :
           /\ Cardinality(C17_WrittenBy(run)) <= 1
           /\ cryptoPc[run].at = "rejected"
              => /\ C17_WrittenBy(run) = {}
                 /\ \A i \in 1..Len(investments) : investments[i].by # <<"crypto", run>>

C17_Step ==
    /\ cryptoForm'.proofFile # cryptoForm.proofFile /\ cryptoForm'.proofFile.present
       => C17_Acceptable(cryptoForm'.proofFile)
    /\ Len(cryptoPc') = Len(cryptoPc) + 1 /\ C17_Incomplete(cryptoForm)
       => /\ cryptoPc'[Len(cryptoPc')].at = "rejected"
          /\ UNCHANGED storeVars
    /\ Len(cryptoPc') = Len(cryptoPc) + 1 /\ ~C17_Incomplete(cryptoForm)
       => /\ cryptoPc'[Len(cryptoPc')].at = "reading"
          /\ cryptoPc'[Len(cryptoPc')].form = cryptoForm

\* C17: every transaction record the crypto path has written comes from a
\* submission with a non-empty transaction hash, the terms accepted and a
\* proof file of at most 5MB with an image MIME type, and carries that hash
\* and that file; handleFileChange never stores a file above the size
\* limit or of another type; a submission without hash, proof or terms is
\* rejected and writes nothing, neither at once nor later.
C17_CryptoRecordsComeFromCompleteSubmissions ==
    []C17_Stored /\ [][C17_Step]_vars

\* one submission was rejected, another one went through and its
\* transaction is stored with the proof file of exactly 5MB, after
\* handleFileChange had refused the file that is too large
C17_Witness_RejectedAndWritten ==
    /\ \E run \in 1..Len(cryptoPc) : cryptoPc[run].at = "rejected"
    /\ \E i \in 1..Len(transactions) :
           /\ transactions[i].method = "crypto"
           /\ transactions[i].proofFile.name = "limit.png"
           /\ transactions[i].proofFile.data = <<"R", "w">>
    /\ \E i \in 1..Len(payToasts) : payToasts[i] = "File size must be <5MB"

\* ---------------------------------------------------------------------
\* C18
\* ---------------------------------------------------------------------

\* the transaction records the card path has written
C18_CardRecords == {i \in 1..Len(transactions) : transactions[i].method = "Stripe"}

\* what a card record holds about the card: four digits and an expiry, and
\* no field for the number, the CVC or the holder
C18_OnlyLastFourAndExpiry(tx) ==
    /\ DOMAIN tx.card = {"last4", "expiry"}
    /\ DOMAIN tx \cap {"cardNumber", "cvc", "cardholder"} = {}
    /\ Len(tx.card.last4) = 4
    /\ \A k \in 1..4 : IsDigit(tx.card.last4[k])
    /\ C2_ExpiryWellFormed(tx.card.expiry)

\* the digits of the card number in the form, in order
C18_NumberTyped == SelectSeq(cardForm.cardNumber, IsDigit)

\* C18: every transaction record the card path writes has status 'success'
\* and holds of the card only the last 4 digits of its number and the
\* expiry: the four digits stored are the last four of the 16 that were
\* submitted, and neither the whole number nor the CVC is a field of any
\* stored transaction or investment.
C18_CardRecordKeepsLastFourOnly ==
    /\ [](/\ \A i \in C18_CardRecords :
                 /\ transactions[i].status = "success"
                 /\ C18_OnlyLastFourAndExpiry(transactions[i])
          /\ \A i \in 1..Len(investments) :
                 DOMAIN investments[i] \cap {"card", "cardNumber", "cvc", "cardholder"} = {})
    /\ [][/\ Len(cardRuns') = Len(cardRuns) + 1 /\ cardRuns'[Len(cardRuns')] = "pending"
             => /\ payPc'.digits = C18_NumberTyped
                /\ Len(payPc'.digits) = 16
                /\ payPc'.expiry = cardForm.expiry
          /\ Len(transactions') = Len(transactions) + 1
             => LET tx == transactions'[Len(transactions')]
                IN  /\ tx.card.last4 = SubSeq(payPc.digits, 13, 16)
                    /\ tx.card.expiry = payPc.expiry
                    /\ tx.by = <<"card", payPc.run>>
         ]_vars

\* a card payment is stored: of the number 1234 5678 9012 3456 the record
\* holds 3456, and the expiry 12/34
C18_Witness_CardRecordStored ==
    \E i \in C18_CardRecords :
        /\ transactions[i].card.last4 = <<"3", "4", "5", "6">>
        /\ transactions[i].card.expiry = <<"1", "2", "/", "3", "4">>
        /\ transactions[i].status = "success"

----------------------------------------------------------------------------
(* Register and Login with the form as state: what the visitor has typed
   stays in formData until a handler or the visitor changes it *)

FormPages == RegPages \cup {"login"}

\* useState of formData
EmptyForm(page) ==
    IF page = "login" THEN LoginForm(NoEmail, <<>>, "")
    ELSE RegForm(<<>>, NoEmail, <<>>, "", <<>>, <<>>, <<>>)

\* what the onChange handlers can leave in the form: every field with a
\* value that passes its checks and values that fail them
TypedForms(page) ==
    IF page = "phone"
    THEN {RegForm(name, NoEmail, phone, country, password, confirmPassword, <<>>) :
              name \in {Ann, <<" ">>},
              phone \in {Plus12, Plus1Space2, <<>>, <<"0", "1", "2">>},
              country \in {"NG", ""},
              password \in {Secret, Secret5},
              confirmPassword \in {Secret, Secret5}}
    ELSE IF page = "email"
    THEN {RegForm(<<>>, Mail, Plus12, country, password, confirmPassword, <<>>) :
              country \in {"NG", ""},
              password \in {Secret, Secret5},
              confirmPassword \in {Secret, Secret5}}
    ELSE LoginForms

\* the page is the one the browser shows
PageOpen(page) ==
    IF page = "login" THEN loginLocation = "/auth/login"
    ELSE regLocation[page] = "/auth/register"

\* the onChange handlers: setFormData
SetFormData(page, form) ==
    /\ PageOpen(page)
    /\ formData' = [formData EXCEPT ![page] = form]
    /\ UNCHANGED <<user, storeVars, payVars, users, walletVars, regVars, loginVars,
                   txVars, dashVars, cryptoVars, subVars>>

\* onSubmit of the registration forms: handleSubmit and handleEmailSignUp
\* read formData
handleSubmit(page) == RegSubmit(page, formData[page])

\* onSubmit of the login form: handleEmailLogin reads formData
handleEmailLogin == LoginSubmit(formData["login"])

\* the registration and login pages when the browser shows the page open
\* (none of them when open is "none")
FormsMounted(open) ==
    /\ identities = IF open = "login" THEN <<Vera, Uma, Gina>> ELSE <<>>
    /\ regLocation = [page \in RegPages |-> IF page = open THEN "/auth/register" ELSE ""]
    /\ loginLocation = IF open = "login" THEN "/auth/login" ELSE ""
    /\ credits = {}
    /\ creditLog = [p \in Referrers \cup {Uids[i] : i \in 1..Len(Uids)} |->
                        [applied |-> 0, rejected |-> 0]]
    /\ regPc = [page \in RegPages |-> RegIdle]
    /\ regToast = [page \in RegPages |-> RegToast("", "")]
    /\ regRuns = <<>>
    /\ loginPc = LoginIdle
    /\ loginToasts = <<>>
    /\ loginRuns = 0
    /\ formData = [page \in FormPages |-> EmptyForm(page)]

FormsInit ==
    /\ user = NoUser
    /\ session = NoUser
    /\ PayUnused
    /\ WalletUnused
    /\ TransactionsUnused
    /\ DashboardUnused
    /\ CryptoUnused
    /\ SubscriptionsUnused
    /\ \E open \in FormPages :
           /\ FormsMounted(open)
           /\ users = IF open = "login"
                      THEN (Gina.uid :> OAuthProfileDoc(Gina))
                      ELSE ("uid-ref1" :> Referrer(CodeA, 0)) @@ ("uid-ref2" :> Referrer(CodeB, 500))

FormsNext ==
    \/ \E page \in FormPages : \E form \in TypedForms(page) : SetFormData(page, form)
    \/ \E page \in RegPages : handleSubmit(page)
    \/ \E page \in RegPages : \E code \in GeneratedCodes : CreateUserResolve(page, code)
    \/ \E page \in RegPages : CreateUserReject(page)
    \/ \E page \in RegPages : VerificationSent(page)
    \/ \E page \in RegPages : VerificationReject(page)
    \/ \E page \in RegPages : SetDocResolve(page)
    \/ \E page \in RegPages : SetDocReject(page)
    \/ handleEmailLogin
    \/ SignInResolve
    \/ SignInReject
    \/ AuthStateChanged
    \/ LoginRedirect

SpecForms == FormsInit /\ [][FormsNext]_vars

\* ---------------------------------------------------------------------
\* C19
\* ---------------------------------------------------------------------

\* the messages for the required fields the form lacks
C19_RequiredMissing(form) ==
    {m \in {"Enter your name", "Enter phone number", "Select your country"} :
        \/ m = "Enter your name" /\ \A i \in 1..Len(form.name) : form.name[i] = " "
        \/ m = "Enter phone number" /\ form.phone = <<>>
        \/ m = "Select your country" /\ form.country = ""}

\* the phone number without its blanks is an optional +, a digit from 1 to
\* 9 and one to fourteen more digits
C19_PhoneWellFormed(phone) ==
    LET s == SelectSeq(phone, LAMBDA c : c # " ")
        body == IF s # <<>> /\ s[1] = "+" THEN SubSeq(s, 2, Len(s)) ELSE s
    IN  /\ Len(body) \in 2..15
        /\ body[1] \in {"1", "2", "3", "4", "5", "6", "7", "8", "9"}
        /\ \A i \in 2..Len(body) :
               body[i] \in {"0", "1", "2", "3", "4", "5", "6", "7", "8", "9"}

\* the rules the form violates, in the order of the claim: 1 required
\* fields, 2 password match, 3 password length, 4 phone format
C19_Violated(form) ==
    {rule \in 1..4 :
        \/ rule = 1 /\ C19_RequiredMissing(form) # {}
        \/ rule = 2 /\ form.password # form.confirmPassword
        \/ rule = 3 /\ Len(form.password) < 6
        \/ rule = 4 /\ ~C19_PhoneWellFormed(form.phone)}

\* the messages of a rule
C19_Messages(rule, form) ==
    CASE rule = 1 -> C19_RequiredMissing(form)
      [] rule = 2 -> {"Passwords do not match"}
      [] rule = 3 -> {"Password >= 6 characters"}
      [] rule = 4 -> {"Invalid phone number"}

C19_Earliest(form) == CHOOSE rule \in C19_Violated(form) : \A r \in C19_Violated(form) : rule <= r

\* C19: handleSubmit of the Register page checks the required fields, then
\* that the passwords match, then the length of the password, then the
\* format of the phone number: a submission that violates one or several
\* rules gets one error notification, the one of the earliest rule it
\* violates, and no call is started; a submission is passed on only when it
\* violates none.
C19_EarliestViolatedRuleIsReported ==
    [][/\ (/\ regPc["phone"].at = "idle" /\ regPc'["phone"].at = "idle"
           /\ regToast'["phone"] # regToast["phone"])
          => /\ C19_Violated(formData["phone"]) # {}
             /\ regToast'["phone"].kind = "error"
             /\ regToast'["phone"].message
                    \in C19_Messages(C19_Earliest(formData["phone"]), formData["phone"])
       /\ (regPc["phone"].at = "idle" /\ regPc'["phone"].at = "createUser")
          => C19_Violated(formData["phone"]) = {}
      ]_vars

\* a form whose passwords differ, whose password is too short and whose
\* phone number is malformed was submitted: the mismatch is what is reported
C19_Witness_SeveralRulesViolated ==
    /\ C19_Violated(formData["phone"]) = {2, 3, 4}
    /\ regPc["phone"].at = "idle"
    /\ regToast["phone"] = RegToast("error", "Passwords do not match")

----------------------------------------------------------------------------
(* The screens with checks before their remote calls, one of them open:
   the Wallet page, a registration page or the Login page *)

\* the Wallet page is the screen that is open
WalletOpen == DOMAIN wPc = Sessions

\* the steps of the Wallet page
WalletScreen == WalletOpen /\ WalletNext

ValidationInit ==
    \/ /\ WalletMounted
       /\ session = SessionOf(Alice)
       /\ FormsMounted("none")
       /\ TransactionsUnused
       /\ DashboardUnused
       /\ CryptoUnused
       /\ SubscriptionsUnused
    \/ FormsInit

ValidationNext ==
    \/ WalletScreen
    \/ FormsNext

SpecValidation == ValidationInit /\ [][ValidationNext]_vars

\* ---------------------------------------------------------------------
\* C20
\* ---------------------------------------------------------------------

\* the deposit dialog holds something handleDeposit must refuse: no
\* positive amount, fewer than 16 digits, an expiry that is not MM/YY or a
\* CVC of fewer than 3 digits
C20_DepositInvalid(form) ==
    \/ form.amount \notin {"0.01", "0.02", "0.03"}
    \/ Len(SelectSeq(form.cardNumber, IsDigit)) < 16
    \/ ~C2_ExpiryWellFormed(form.expiry)
    \/ Len(form.cvc) < 3

\* the amount of the withdraw dialog in cents, 0 when it is not positive
C20_Cents(text) ==
    CASE text = "0.01" -> 1 [] text = "0.02" -> 2 [] text = "0.03" -> 3 [] OTHER -> 0

\* the withdraw dialog holds something handleWithdraw must refuse: no
\* positive amount, more than the balance shown, or a bank detail missing
C20_WithdrawInvalid(form, shown) ==
    \/ C20_Cents(form.amount) = 0
    \/ C20_Cents(form.amount) > shown
    \/ form.bankName = "" \/ form.accountNumber = "" \/ form.accountName = ""

\* nothing that is stored, here or at the authentication service, changes
C20_NothingStoredChanges ==
    /\ users' = users
    /\ transactions' = transactions
    /\ investments' = investments
    /\ identities' = identities
    /\ session' = session
    /\ credits' = credits

\* the click on Deposit or Withdraw of this step, in session s
C20_Clicked(s, kind) ==
    /\ WalletOpen
    /\ wClicks' = wClicks + 1
    /\ wLast' = [s |-> s, kind |-> kind]

\* the registration page refuses the submission of this step
C20_RegistrationRefused(page) ==
    /\ regPc[page].at = "idle" /\ regPc'[page].at = "idle"
    /\ regToast'[page] # regToast[page]

\* the login page refuses the submission of this step for its country
C20_LoginRefused ==
    /\ loginLocation = "/auth/login"
    /\ loginRuns' = loginRuns + 1
    /\ formData["login"].country = ""

\* C20: validation errors are caught before any remote call.  When the
\* checks of handleDeposit, of handleWithdraw, of the registration handlers
\* or the country check of handleEmailLogin fail, the handler starts no
\* call (its position stays idle) and only raises its notification: the
\* profiles with their balances, the transaction log, the identities and
\* the session are unchanged, the dialog stays open and the form keeps the
\* values that were submitted.
C20_ValidationFailureHasNoEffect ==
    [][/\ \A s \in Sessions :
              C20_Clicked(s, "deposit") /\ C20_DepositInvalid(wDeposit'[s])
              => /\ C20_NothingStoredChanges
                 /\ wPc' = wPc /\ wPc[s] = WIdle
                 /\ wBalance' = wBalance
                 /\ wModal' = wModal
                 /\ wDeposit'[s] # EmptyDeposit
                 /\ wToast'[s] \notin {"", "Deposit successful!"}
       /\ \A s \in Sessions :
              C20_Clicked(s, "withdrawal") /\ C20_WithdrawInvalid(wWithdraw'[s], wBalance[s])
              => /\ C20_NothingStoredChanges
                 /\ wPc' = wPc /\ wPc[s] = WIdle
                 /\ wBalance' = wBalance
                 /\ wModal' = wModal
                 /\ wWithdraw'[s] # EmptyWithdraw
                 /\ wToast'[s] \notin {"", "Withdrawal request submitted!"}
       /\ \A page \in RegPages :
              C20_RegistrationRefused(page)
              => /\ C20_NothingStoredChanges
                 /\ regPc' = regPc
                 /\ regLocation' = regLocation
                 /\ formData' = formData
                 /\ regToast'[page].kind = "error"
       /\ C20_LoginRefused
          => /\ C20_NothingStoredChanges
             /\ loginPc' = loginPc /\ loginPc = LoginIdle
             /\ user' = user
             /\ loginLocation' = loginLocation
             /\ formData' = formData
             /\ loginToasts' = Append(loginToasts,
                    RegToast("error", "Please select your country"))
      ]_vars

\* a withdrawal of more than the balance shown was refused: the dialog is
\* still open with what was typed, the page is idle, and neither the stored
\* balance nor the transaction log has changed
C20_Witness_WithdrawalRefused ==
    /\ WalletOpen
    /\ \E s \in Sessions :
           /\ wToast[s] = "Insufficient balance"
           /\ wModal[s] = "withdraw"
           /\ wWithdraw[s].amount = "0.03"
           /\ wBalance[s] = 2
           /\ \A t \in Sessions : wPc[t] = WIdle
    /\ users[Alice.uid].balance = 2
    /\ transactions = <<>>

\* ---------------------------------------------------------------------
\* C21
\* ---------------------------------------------------------------------

\* the submissions of the crypto tab whose read or writes have not settled
C21_CryptoInFlight ==
    {run \in 1..Len(cryptoPc) : cryptoPc[run].at \in {"reading", "tx", "inv"}}

\* C21: in the payment modal the loading flag, which disables the submit
\* button, is true from the start of a submission until its last remote
\* write has settled, for the card handler and for the crypto handler, so
\* that no second submission starts while writes of the first are in
\* flight: at most one submission is in flight at a time.
C21_LoadingUntilLastWriteSettles ==
    /\ payPc.at \in {"delay", "tx", "inv"} => payLoading
    /\ C21_CryptoInFlight # {} => payLoading
    /\ Cardinality(C21_CryptoInFlight) <= 1

\* ---------------------------------------------------------------------
\* C22
\* ---------------------------------------------------------------------

\* a write of the crypto submission fails in this step
C22_CryptoWriteFails(run) ==
    /\ cryptoPc[run].at \in {"tx", "inv"}
    /\ cryptoPc'[run].at = "lost"

\* a write of the card submission fails in this step
C22_CardWriteFails ==
    /\ payPc.at \in {"tx", "inv"}
    /\ payPc'.at = "idle"
    /\ cardRuns'[payPc.run] = "failed"

\* one notification is raised in this step, and it is an error
C22_ErrorNotified ==
    /\ Len(payToasts') = Len(payToasts) + 1
    /\ SubSeq(payToasts', 1, Len(payToasts)) = payToasts
    /\ payToasts'[Len(payToasts')] \in {"Payment failed", "Failed to submit crypto deposit"}

\* C22: when a remote write of the payment modal fails, for the card
\* handler and for the crypto handler, the user gets an error notification
\* and what is displayed stays as it was: the modal is not closed, the form
\* is not reset, and nothing navigates.
C22_FailedWriteIsNotifiedAndLeavesTheScreen ==
    [][(C22_CardWriteFails \/ \E run \in 1..Len(cryptoPc) : C22_CryptoWriteFails(run))
       => /\ C22_ErrorNotified
          /\ isOpen' = isOpen
          /\ cardForm' = cardForm
          /\ cryptoForm' = cryptoForm
          /\ payLocation' = payLocation
      ]_vars

\* =====================================================================
\* Live feeds: the onSnapshot subscriptions of Wallet and of the two
\* Transactions pages, opened and closed by their useEffect
\* =====================================================================

MaxEffectRuns == 3

SubScreens == {"wallet", "byUserId", "byEmail"}

\* the same account after its address was changed
AliceMoved == [uid |-> "uid-alice", email |-> "alice@example.org"]

Bola == [uid |-> "uid-bola", email |-> "bola@example.com"]

AuthUsers == {NoUser, Alice, AliceMoved, Bola}

\* the dependency array of the effect: [user?.uid], [user?.uid], [user?.email, filter]
deps(screen, u, filter) ==
    IF screen = "byEmail" THEN <<u.email, filter>> ELSE <<u.uid>>

Listener(feed, run, key, filter) == [feed |-> feed, run |-> run, key |-> key, filter |-> filter]

\* the body of the effect: the listeners it registers
subscribe(screen, u, filter, run) ==
    CASE screen = "wallet" ->
           IF u.uid = NULL THEN {}
           ELSE {Listener("user", run, u.uid, NULL), Listener("tx", run, u.uid, NULL)}
      [] screen = "byUserId" ->
           IF u.uid = NULL THEN {} ELSE {Listener("tx", run, u.uid, NULL)}
      [] screen = "byEmail" ->
           IF u.email = NULL THEN {} ELSE {Listener("tx", run, u.email, filter)}

\* a cleanup of the Wallet page that forgets the transaction feed
cleanup_userFeedOnly(opened) == {l \in opened : l.feed = "user"}

\* the function the effect returns: the listeners it unsubscribes
\* (unsubscribeUser(); unsubscribeTx()  /  unsubscribe())
cleanup(opened) == opened

Effect(screen, phase, u, filter, opened, runs) ==
    [screen |-> screen, phase |-> phase, user |-> u, filter |-> filter,
     opened |-> opened, runs |-> runs]

\* React runs the effect: the previous cleanup first, then the body
RunEffect(phase, u, filter) ==
    LET run == effect.runs + 1
        opened == subscribe(effect.screen, u, filter, run)
    IN /\ effect.runs < MaxEffectRuns
       /\ listeners' = (listeners \ cleanup(effect.opened)) \cup opened
       /\ effect' = Effect(effect.screen, phase, u, filter, opened, run)

\* a render with new props or state: the effect runs when a dependency changed
Rerender(u, filter) ==
    IF deps(effect.screen, u, filter) # deps(effect.screen, effect.user, effect.filter)
    THEN RunEffect("updated", u, filter)
    ELSE /\ effect' = [effect EXCEPT !.user = u, !.filter = filter]
         /\ UNCHANGED listeners

outsideSubscriptions ==
    <<user, storeVars, payVars, users, walletVars, regVars, loginVars, txVars, dashVars,
      cryptoVars, formData>>

\* the screen is shown
SubMount ==
    /\ effect.phase = "unmounted"
    /\ RunEffect("mounted", effect.user, effect.filter)
    /\ UNCHANGED outsideSubscriptions

\* useAuth() gives another user
SubUserChanges(u) ==
    /\ u # effect.user
    /\ IF effect.phase = "unmounted"
       THEN effect' = [effect EXCEPT !.user = u] /\ UNCHANGED listeners
       ELSE Rerender(u, effect.filter)
    /\ UNCHANGED outsideSubscriptions

\* setFilter of the Transactions pages
SubFilterChanges(filter) ==
    /\ effect.phase # "unmounted"
    /\ effect.screen # "wallet"
    /\ filter # effect.filter
    /\ Rerender(effect.user, filter)
    /\ UNCHANGED outsideSubscriptions

\* the screen is left: React runs the cleanup of the last run
SubUnmount ==
    /\ effect.phase # "unmounted"
    /\ listeners' = listeners \ cleanup(effect.opened)
    /\ effect' = [effect EXCEPT !.phase = "unmounted", !.opened = {}, !.filter = "all"]
    /\ UNCHANGED outsideSubscriptions

\* the store ends a listener with an error: it delivers nothing any more
SubListenerError ==
    /\ \E l \in listeners : listeners' = listeners \ {l}
    /\ UNCHANGED effect
    /\ UNCHANGED outsideSubscriptions

SubscriptionsInit ==
    /\ \E screen \in SubScreens, u \in AuthUsers :
           effect = Effect(screen, "unmounted", u, "all", {}, 0)
    /\ listeners = {}
    /\ user = NoUser
    /\ PayUnused
    /\ users = <<>>
    /\ WalletUnused
    /\ RegisterUnused
    /\ LoginUnused
    /\ TransactionsUnused
    /\ DashboardUnused
    /\ CryptoUnused
    /\ FormsUnused

SubscriptionsNext ==
    \/ SubMount
    \/ \E u \in AuthUsers : SubUserChanges(u)
    \/ \E filter \in TxFilters : SubFilterChanges(filter)
    \/ SubUnmount
    \/ SubListenerError

SpecSubscriptions == SubscriptionsInit /\ [][SubscriptionsNext]_vars

\* ---------------------------------------------------------------------
\* C23
\* ---------------------------------------------------------------------

C23_Active(feed) == {l \in listeners : l.feed = feed}

\* C23: on Wallet and on both Transactions pages every subscription a run
\* of the effect opened is unsubscribed before the next run opens its
\* replacement and when the screen is left: a shown screen has at most one
\* listener per feed, and that one belongs to the last run; a screen that
\* is not shown has none
C23_SubscriptionsAreTornDown ==
    /\ \A feed \in {"user", "tx"} : Cardinality(C23_Active(feed)) <= 1
    /\ \A l \in listeners : l.run = effect.runs
    /\ effect.phase = "unmounted" => listeners = {}

\* the Wallet page has replaced both of its subscriptions after the user changed
C23_Witness_Replaced ==
    /\ effect.screen = "wallet"
    /\ effect.phase = "updated"
    /\ effect.runs >= 2
    /\ {l.feed : l \in listeners} = {"user", "tx"}

\* =====================================================================
\* The handlers that write twice: the payment modal and the Wallet page
\* =====================================================================

\* the steps of the payment modal
PayScreen == isOpen \in BOOLEAN /\ wPc = <<>> /\ PayNext

TwoWritesInit ==
    \/ PayInit
    \/ WalletInit

TwoWritesNext ==
    \/ PayScreen
    \/ WalletScreen

SpecTwoWrites == TwoWritesInit /\ [][TwoWritesNext]_vars

\* ---------------------------------------------------------------------
\* C24
\* ---------------------------------------------------------------------

\* the investment write of the card payment fails after its transaction write
C24_CardSecondWriteFails ==
    payPc.at = "inv" /\ payPc'.at = "idle" /\ investments' = investments

\* the transaction append of session s fails after its balance update
C24_WalletSecondWriteFails(s) ==
    wPc # <<>> /\ wPc[s].at = "add" /\ wPc'[s] = WIdle /\ transactions' = transactions

RECURSIVE C25_LedgerSum(_)
\* deposits minus withdrawals of the transactions in txs, in cents
C25_LedgerSum(txs) ==
    IF txs = <<>> THEN 0
    ELSE LET t == txs[Len(txs)]
         IN  C25_LedgerSum(SubSeq(txs, 1, Len(txs) - 1))
             + (CASE t.type = "deposit" -> t.amount
                  [] t.type = "withdrawal" -> 0 - t.amount
                  [] OTHER -> 0)

\* every deposit and withdrawal clicked so far went through: each click has
\* appended its transaction and no handler is running
C25_AllSucceeded ==
    /\ wPc # <<>>
    /\ HasProfile(user.uid)
    /\ \A s \in Sessions : wPc[s] = WIdle
    /\ wClicks > 0
    /\ Len(transactions) = wClicks

\* C25: once all deposits and withdrawals of the user have gone through, in
\* whatever order their reads and writes were served, the stored balance is
\* the balance the profile started with plus the appended deposits minus the
\* appended withdrawals
C25_LedgerConservation ==
    C25_AllSucceeded =>
        StoredBalance(user.uid) - C25_LedgerSum(transactions) \in InitialBalances

\* =====================================================================
\* The balance of one profile: the Wallet page of its owner while the
\* referral credit of somebody else's registration is on its way
\* =====================================================================

\* updateDoc(balance: increment(1000)) issued by handleReferralBonus of a
\* visitor who registered with the owner's code
CreditInFlight == [run |-> 1, to |-> Alice.uid]

BalanceInit ==
    /\ WalletMounted
    /\ HasProfile(Alice.uid)
    /\ identities = <<>>
    /\ credits = {CreditInFlight}
    /\ creditLog = (Alice.uid :> [applied |-> 0, rejected |-> 0])
    /\ regPc = <<>> /\ regToast = <<>> /\ regLocation = <<>> /\ regRuns = <<>>
    /\ LoginUnused
    /\ ViewsUnused

\* the owner uses one session
BalanceNext ==
    \/ WalletSteps("tabA")
    \/ CreditApply(CreditInFlight)
    \/ CreditReject(CreditInFlight)

SpecBalance == BalanceInit /\ [][BalanceNext]_vars

\* ---------------------------------------------------------------------
\* C26
\* ---------------------------------------------------------------------

C27_ReferredSuccess(page) ==
    /\ regPc[page].at = "query"
    /\ regRuns'[regPc[page].run].outcome = "success"

\* the store rejects the credit write c in this step
C27_CreditRejected(c) ==
    /\ c \notin credits'
    /\ creditLog'[c.to].rejected = creditLog[c.to].rejected + 1

\* C27: handleReferralBonus starts its credit writes and returns: in the
\* step in which a referred registration notifies success and navigates,
\* every credit it issued is still on its way and no balance has changed;
\* and a step in which a credit write fails changes no notification, no
\* route, no outcome, no identity and no profile
C27_CreditsAreNotAwaited ==
    [][/\ \A page \in RegPages : C27_ReferredSuccess(page) =>
            /\ regToast'[page].kind = "success"
            /\ regLocation'[page] # regLocation[page]
            /\ users' = users
            /\ creditLog' = creditLog
            /\ \A p \in matchingProfiles(regPc[page].form.referralCode) :
                   [run |-> regPc[page].run, to |-> p] \in credits' \ credits
       /\ \A c \in credits : C27_CreditRejected(c) =>
            /\ regToast' = regToast
            /\ regLocation' = regLocation
            /\ regRuns' = regRuns
            /\ identities' = identities
            /\ users' = users]_vars

\* the one registration was reported as a success, its identity and profile
\* exist, and the credit for its referrer was rejected afterwards
C27_Witness_CreditRejectedAfterSuccess ==
    /\ Len(regRuns) = 1
    /\ regRuns[1].outcome = "success"
    /\ regRuns[1].referralCode = CodeA
    /\ \E page \in RegPages : regToast[page].kind = "success"
    /\ Len(identities) = 1
    /\ "uid-1" \in DOMAIN users
    /\ credits = {}
    /\ creditLog["uid-ref1"].rejected = 1
    /\ users["uid-ref1"].balance = 0

\* ---------------------------------------------------------------------
\* C28
\* ---------------------------------------------------------------------

\* C28: once the loader of an opened Dashboard has settled, with every read
\* answered or one of them failed, the page no longer shows the spinner
C28_SettledLoaderClearsLoading ==
    (dashPc # <<>> /\ dashPc.at = "idle") => ~dashPage.loading

\* ---------------------------------------------------------------------
\* C29
\* ---------------------------------------------------------------------

\* C29: every transaction and every investment the payment modal has
\* written for the signed-in user is returned by the query of each
\* Transactions variant and of each Dashboard variant for that user
C29_WrittenRecordsAreReturned ==
    user # NoUser =>
        /\ \A variant \in TxVariants : Len(txQuery(variant)) = Len(transactions)
        /\ \A variant \in DashVariants : Len(invQuery(variant)) = Len(investments)

\* ---------------------------------------------------------------------
\* C30
\* ---------------------------------------------------------------------

\* no registration handler is still working on the identity uid
C30_HandlerFinished(uid) ==
    \A page \in RegPages : regPc[page].at = "idle" \/ regPc[page].uid # uid

\* C30: once the registration handler that created an identity has
\* finished, with success or with failure, a profile keyed by the
\* identity's id exists; and every profile a registration stored belongs to
\* an identity
C30_IdentityIffProfile ==
    /\ \A i \in 1..Len(identities) :
          C30_HandlerFinished(identities[i].uid) => identities[i].uid \in DOMAIN users
    /\ \A p \in DOMAIN users \ Referrers :
          \E i \in 1..Len(identities) : identities[i].uid = p

====
